---------------------------- MODULE Spec2Model ----------------------------
(***************************************************************************)
(* A model of the VIFF runtime (src/viff/runtime.py): the program counter  *)
(* and schedule_callback, the per-connection incoming queues, open and     *)
(* passive multiplication over Shamir sharings, and the Bracha broadcast.  *)
(*                                                                         *)
(* The module holds several specifications over one list of variables;     *)
(* each specification initialises the variables of the others to a fixed   *)
(* value and leaves them unchanged.                                        *)
(*   SpecPC      increment_pc, schedule_callback, Deferred callbacks       *)
(*   SpecQueue   stringReceived and _expect_data on one connection         *)
(*   SpecOpen    Runtime.open on a Shamir sharing                          *)
(*   SpecMul     Runtime.mul (resharing) followed by Runtime.open          *)
(*   SpecShare   Share objects: callback, errback, add, sub, clone, open   *)
(*   SpecDouble  the exchange and verify steps of double_share_random      *)
(*   SpecSilent  Runtime.open with silent players; FairSpecSilent is fair  *)
(*   SpecPool    the preprocessing pool: get_triple, preprocess, update    *)
(*   SpecActiveMul  ActiveRuntime.mul with a triple, then open             *)
(*   SpecTriple  make_triple of generate_triples, then open of each c      *)
(*   SpecBatch   single/double_share_random in full, then generate_triples *)
(*   SpecShutdown  shutdown: synchronize, close_connections, stop_reactor  *)
(*   SpecCreate  create_runtime and ShareExchangerFactory.identify_peer    *)
(*   SpecList    ShareList with a threshold                                *)
(*   SpecPrss    prss_share followed by open; SpecPrssOnly is prss alone   *)
(*   SpecXor     Runtime.xor over Zp and over GF256, then open             *)
(*   SpecBedoza  BeDOZaMixin.open (src/viff/bedoza/bedoza.py)              *)
(*   SpecOpenObj Runtime.open on the Share objects (test_open_no_mutate)   *)
(*   SpecUsage   the constructor, shamir_share and prss_share on bad input *)
(*   SpecSched   SpecPC on programs that go on after schedule_callback     *)
(*   SpecRecombine  Runtime._recombine over Shares that arrive or fail     *)
(*   SpecPreprocess  SpecPool with generators that may fail                *)
(*   SpecCert    the first string on connections with a peer certificate   *)
(*   SpecGF256   the inverse in GF(2^8) (src/pysmpc/field.py)              *)
(*   SpecBracha  ActiveRuntime._broadcast with honest and corrupt players; *)
(*               FairSpecBracha adds fair scheduling of the honest players *)
(***************************************************************************)
EXTENDS Integers, Sequences, FiniteSets, TLC

VARIABLES
    \* ---- SpecPC: two runtimes running one program ----
    program,          \* the application's top-level statements (same for both runtimes)
    next_stmt,        \* [runtime -> index of the next top-level statement]
    rt,               \* [runtime -> interpreter state: heap, program_counter, deferreds, logs]
    \* ---- SpecQueue: one ShareExchanger's incoming_data ----
    incoming_data,    \* key -> deque of payloads or Deferreds (keys with an empty deque are deleted)
    arrived,          \* ghost: [key -> payloads in arrival order]
    registered,       \* ghost: [key -> waiters in registration order]
    resolved,         \* ghost: waiter -> payload its Deferred was called back with
    \* ---- SpecOpen, SpecMul: players that share, multiply and open ----
    cfg,              \* [prog, n, t, modulus, coins, stalled]: the application, num_players, threshold, field
    secret,           \* ghost: the secrets the input shares were made from
    pl,               \* [player -> its runtime's state]
    net,              \* [<<from, to>> -> messages in flight on that connection, in order]
    \* ---- SpecBracha: one Bracha broadcast ----
    bc,               \* [n, t, corrupt, sender, message, moves]: the instance
    bp,               \* [honest player -> its runtime's state]
    bnet,             \* [<<from, to>> -> messages in flight between honest players]
    \* ---- SpecShare: two Shares and a Share derived from them ----
    sh_scen,          \* [op, modulus, a, b]: the derivation and its operands
    sh_heap,          \* sequence of Share objects; a Share is referred to by its index
    sh_out,           \* the Share the derivation returned (0 before it was called)
    sh_log,           \* ghost: the callback/errback calls made from outside, in order
    \* ---- SpecPool: one runtime's preprocessing pool ----
    pool_rt,          \* [heap, pc, saved, T, pool, needed_data, callbacks, pending, made]
    pool_log          \* ghost: the calls of get_triple, in order

pcVars == <<program, next_stmt, rt>>
queueVars == <<incoming_data, arrived, registered, resolved>>
shareVars == <<cfg, secret, pl, net>>
brachaVars == <<bc, bp, bnet>>
objVars == <<sh_scen, sh_heap, sh_out, sh_log>>
poolVars == <<pool_rt, pool_log>>
vars == <<program, next_stmt, rt, incoming_data, arrived, registered, resolved,
          cfg, secret, pl, net, bc, bp, bnet, sh_scen, sh_heap, sh_out, sh_log,
          pool_rt, pool_log>>

\* The value the variables of a specification have in the others.
PCIdle == program = <<>> /\ next_stmt = <<>> /\ rt = <<>>
QueueIdle ==
    incoming_data = <<>> /\ arrived = <<>> /\ registered = <<>> /\ resolved = <<>>
ShareIdle == cfg = <<>> /\ secret = <<>> /\ pl = <<>> /\ net = <<>>
BrachaIdle == bc = <<>> /\ bp = <<>> /\ bnet = <<>>
ObjIdle == sh_scen = <<>> /\ sh_heap = <<>> /\ sh_out = 0 /\ sh_log = <<>>
PoolIdle == pool_rt = <<>> /\ pool_log = <<>>

PCOthersIdle == QueueIdle /\ ShareIdle /\ BrachaIdle /\ ObjIdle /\ PoolIdle
QueueOthersIdle == PCIdle /\ ShareIdle /\ BrachaIdle /\ ObjIdle /\ PoolIdle
ShareOthersIdle == PCIdle /\ QueueIdle /\ BrachaIdle /\ ObjIdle /\ PoolIdle
BrachaOthersIdle == PCIdle /\ QueueIdle /\ ShareIdle /\ ObjIdle /\ PoolIdle
ObjOthersIdle == PCIdle /\ QueueIdle /\ ShareIdle /\ BrachaIdle /\ PoolIdle
PoolOthersIdle == PCIdle /\ QueueIdle /\ ShareIdle /\ BrachaIdle /\ ObjIdle

PCFrame == UNCHANGED <<queueVars, shareVars, brachaVars, objVars, poolVars>>
QueueFrame == UNCHANGED <<pcVars, shareVars, brachaVars, objVars, poolVars>>
ShareFrame == UNCHANGED <<pcVars, queueVars, brachaVars, objVars, poolVars>>
BrachaFrame == UNCHANGED <<pcVars, queueVars, shareVars, objVars, poolVars>>
ObjFrame == UNCHANGED <<pcVars, queueVars, shareVars, brachaVars, poolVars>>
PoolFrame == UNCHANGED <<pcVars, queueVars, shareVars, brachaVars, objVars>>

----------------------------------------------------------------------------
(* Sequence helpers *)

Last(s) == s[Len(s)]
Front(s) == SubSeq(s, 1, Len(s) - 1)
Range(s) == {s[i] : i \in DOMAIN s}
Min(a, b) == IF a < b THEN a ELSE b

----------------------------------------------------------------------------
(***************************************************************************)
(* Program counter and scheduler.                                          *)
(*                                                                         *)
(* The interpreter state st of one runtime is a record:                    *)
(*   heap       sequence of Python list objects (each a sequence of        *)
(*              naturals); a list is referred to by its index              *)
(*   pc         self.program_counter: the index of the list it refers to   *)
(*   saved      the list schedule_callback has just made (saved_pc)        *)
(*   cbs        [deferred -> its callback chain, a sequence of wrappers]   *)
(*   dstate     [deferred -> "pending" | "running" | "ok" | "failed"]      *)
(*   exc        TRUE while an exception propagates                         *)
(*   io, ops, cb   ghost logs of what ran under which program counter      *)
(*                                                                         *)
(* A statement is a record [k, id, d, body]:                               *)
(*   k = "op"     call of an increment_pc-decorated method with that body  *)
(*   k = "io"     send or expect data under tuple(self.program_counter)    *)
(*   k = "sched"  schedule_callback(d, func), func's body being body       *)
(*   k = "fire"   d.callback(value)                                        *)
(*   k = "raise"  raise an exception                                       *)
(***************************************************************************)

Runtimes == {1, 2}
Deferreds == {1, 2}

Stmt(k, id, d, body) == [k |-> k, id |-> id, d |-> d, body |-> body]
Op(id, body) == Stmt("op", id, 0, body)
Io(id) == Stmt("io", id, 0, <<>>)
Sched(id, d, body) == Stmt("sched", id, d, body)
FireStmt(d) == Stmt("fire", 0, d, <<>>)
Raise == Stmt("raise", 0, 0, <<>>)

\* self.program_counter as a value
PcValue(st) == st.heap[st.pc]

\* increment_pc: self.program_counter[-1] += 1; self.program_counter.append(0)
IncrementPcEnter(st) ==
    LET l == st.heap[st.pc]
    IN  [st EXCEPT !.heap[st.pc] = Append([l EXCEPT ![Len(l)] = @ + 1], 0)]

\* a pop that only happens when the method returns normally (no finally)
IncrementPcLeaveNoFinally(st, raised) ==
    IF raised THEN st ELSE [st EXCEPT !.heap[st.pc] = Front(@)]

\* increment_pc: finally: self.program_counter.pop()
IncrementPcLeave(st, raised) ==
    [st EXCEPT !.heap[st.pc] = Front(@)]

\* saved_pc = self.program_counter, the live list itself and no copy
SavePcAlias(st) ==
    [st EXCEPT !.saved = st.pc]

\* schedule_callback: saved_pc = self.program_counter[:], a new list
SavePc(st) ==
    [st EXCEPT !.heap = Append(@, st.heap[st.pc]), !.saved = Len(st.heap) + 1]

\* callback_wrapper that runs func under the live program counter
EnterCallbackLive(st, saved_pc) == st

\* callback_wrapper: current_pc = self.program_counter;
\*                   self.program_counter = saved_pc
EnterCallback(st, saved_pc) ==
    [st EXCEPT !.pc = saved_pc]

\* a restore that only happens when func returns normally (no finally)
LeaveCallbackNoFinally(st, current_pc, raised) ==
    IF raised THEN st ELSE [st EXCEPT !.pc = current_pc]

\* callback_wrapper: finally: self.program_counter = current_pc
LeaveCallback(st, current_pc, raised) ==
    [st EXCEPT !.pc = current_pc]

RECURSIVE Exec(_, _), ExecSeq(_, _), RunCallbacks(_, _)

\* A statement list runs until one of its statements raises.
ExecSeq(stmts, st) ==
    IF stmts = <<>> \/ st.exc THEN st
    ELSE ExecSeq(Tail(stmts), Exec(Head(stmts), st))

\* inc_pc_wrapper around a method body
IncPcWrapper(stmt, st) ==
    LET before == PcValue(st)
        s1 == IncrementPcEnter(st)
        entry == PcValue(s1)
        s2 == ExecSeq(stmt.body, s1)
        s3 == IncrementPcLeave(s2, s2.exc)
    IN  [s3 EXCEPT !.ops = Append(@, [id |-> stmt.id, before |-> before,
                                      entry |-> entry, after |-> PcValue(s3),
                                      raised |-> s2.exc])]

\* callback_wrapper(*args): func runs under saved_pc, then the live counter
\* comes back; the wrapper lets func's exception through to the Deferred.
CallbackWrapper(w, st) ==
    LET current_pc == st.pc
        before == PcValue(st)
        s1 == EnterCallback(st, w.saved)
        seen == PcValue(s1)
        s2 == ExecSeq(w.body, s1)
        s3 == LeaveCallback(s2, current_pc, s2.exc)
    IN  [s3 EXCEPT !.cb = Append(@, [id |-> w.id, sched |-> w.sched,
                                     seen |-> seen, before |-> before,
                                     after |-> PcValue(s3),
                                     raised |-> s2.exc])]

\* Deferred._runCallbacks: the chain runs in order; a callback that raises
\* turns the result into a Failure, and the callbacks after it are skipped.
RunCallbacks(d, st) ==
    IF st.cbs[d] = <<>> THEN st
    ELSE LET w == Head(st.cbs[d])
             s1 == [st EXCEPT !.cbs[d] = Tail(@)]
         IN  IF s1.dstate[d] = "failed" THEN RunCallbacks(d, s1)
             ELSE LET s2 == CallbackWrapper(w, s1)
                  IN  RunCallbacks(d, IF s2.exc
                                      THEN [s2 EXCEPT !.exc = FALSE,
                                                      !.dstate[d] = "failed"]
                                      ELSE s2)

\* Deferred.addCallback: the callback joins the chain, and runs at once when
\* the Deferred has been called and its chain is not running.
AddCallback(d, w, st) ==
    LET s1 == [st EXCEPT !.cbs[d] = Append(@, w)]
    IN  IF s1.dstate[d] \in {"pending", "running"} THEN s1
        ELSE LET s2 == RunCallbacks(d, [s1 EXCEPT !.dstate[d] =
                                     IF @ = "ok" THEN "running" ELSE @])
             IN  [s2 EXCEPT !.dstate[d] = IF @ = "running" THEN "ok" ELSE @]

\* Deferred.callback: a second call raises AlreadyCalledError.
Callback(d, st) ==
    IF st.dstate[d] # "pending" THEN [st EXCEPT !.exc = TRUE]
    ELSE LET s1 == RunCallbacks(d, [st EXCEPT !.dstate[d] = "running"])
         IN  [s1 EXCEPT !.dstate[d] = IF @ = "running" THEN "ok" ELSE @]

\* BasicRuntime.schedule_callback(deferred, func)
ScheduleCallback(stmt, st) ==
    LET s1 == SavePc(st)
        w == [id |-> stmt.id, saved |-> s1.saved, body |-> stmt.body,
              sched |-> PcValue(st)]
    IN  AddCallback(stmt.d, w, s1)

Exec(stmt, st) ==
    CASE stmt.k = "op" -> IncPcWrapper(stmt, st)
      [] stmt.k = "io" -> [st EXCEPT !.io = @ \cup {<<stmt.id, PcValue(st)>>}]
      [] stmt.k = "sched" -> ScheduleCallback(stmt, st)
      [] stmt.k = "fire" -> Callback(stmt.d, st)
      [] stmt.k = "raise" -> [st EXCEPT !.exc = TRUE]

(* The programs the two runtimes run.  ProgMul has the shape of Runtime.mul  *)
(* followed by Runtime.open: two callbacks scheduled from one method on one  *)
(* Deferred, each calling a counted method.  ProgOpen has the shape of       *)
(* Runtime.open: a callback that sends, expects, schedules callbacks on the  *)
(* expected shares and calls _recombine.  ProgRaise has a counted method     *)
(* that raises in a callback and at the top level.  ProgNested fires one     *)
(* Deferred from the callback of another.                                    *)

ProgMul ==
    << Op(1, << Sched(11, 1, << Op(2, << Io(3) >>) >>),
                Sched(12, 1, << Op(4, << >>) >>) >>),
       Op(5, << Sched(13, 2, << Io(6), Op(7, << >>) >>) >>),
       Op(8, << Io(9) >>) >>

ProgOpen ==
    << Op(1, << Sched(11, 1, << Io(2),
                                Sched(12, 2, << Io(3) >>),
                                Op(4, << Io(5) >>) >>) >>),
       Op(6, << Io(7) >>),
       Op(8, << Sched(13, 2, << Op(9, << Io(10) >>) >>) >>) >>

ProgRaise ==
    << Op(1, << Sched(11, 1, << Op(2, << Io(3), Raise >>), Io(4) >>),
                Sched(12, 1, << Io(5) >>) >>),
       Op(6, << Op(7, << Raise >>), Io(8) >>),
       Op(9, << Sched(13, 2, << Io(10), Raise >>), Io(14) >>) >>

ProgNested ==
    << Op(1, << Sched(11, 1, << Op(2, << Io(3) >>), FireStmt(2),
                                Op(4, << Io(5) >>) >>) >>),
       Op(6, << Sched(12, 2, << Op(7, << Io(8) >>) >>), Io(9) >>),
       Op(10, << Io(13) >>) >>

Programs == {ProgMul, ProgOpen, ProgRaise, ProgNested}

\* BasicRuntime.__init__: self.program_counter = [0].  A Deferred is pending,
\* or was called before the program starts (a Share made with a value).
InitRuntime(called) ==
    [heap |-> << <<0>> >>, pc |-> 1, saved |-> 0,
     cbs |-> [d \in Deferreds |-> <<>>],
     dstate |-> [d \in Deferreds |-> IF d \in called THEN "ok" ELSE "pending"],
     exc |-> FALSE, io |-> {}, ops |-> <<>>, cb |-> <<>>]

InitPC ==
    /\ program \in Programs
    /\ next_stmt = [r \in Runtimes |-> 1]
    /\ rt \in {[r \in Runtimes |-> InitRuntime(c[r])] :
                  c \in [Runtimes -> SUBSET Deferreds]}
    /\ PCOthersIdle

\* The application issues its next operation (one reactor event).  An
\* exception that reaches the reactor is logged there and goes no further.
Turn(r) ==
    /\ next_stmt[r] <= Len(program)
    /\ rt' = [rt EXCEPT ![r] =
                [Exec(program[next_stmt[r]], rt[r]) EXCEPT !.exc = FALSE]]
    /\ next_stmt' = [next_stmt EXCEPT ![r] = @ + 1]
    /\ UNCHANGED program
    /\ PCFrame

\* The reactor calls back a pending Deferred (a share arrives).
Fire(r, d) ==
    /\ rt[r].dstate[d] = "pending"
    /\ rt' = [rt EXCEPT ![r] = [Callback(d, rt[r]) EXCEPT !.exc = FALSE]]
    /\ UNCHANGED <<program, next_stmt>>
    /\ PCFrame

NextPC ==
    \/ \E r \in Runtimes : Turn(r)
    \/ \E r \in Runtimes, d \in Deferreds : Fire(r, d)

SpecPC == InitPC /\ [][NextPC]_vars

----------------------------------------------------------------------------
(* Claims about the program counter (checked under SpecPC) *)

IncrementedLast(pc) == [pc EXCEPT ![Len(pc)] = @ + 1]

C8_CallbackSeesScheduledPc ==
    \A r \in Runtimes : \A i \in DOMAIN rt[r].cb :
        rt[r].cb[i].seen = rt[r].cb[i].sched

\* A callback fired when the live counter was no longer the scheduled one.
C8_Witness ==
    \E r \in Runtimes : \E i \in DOMAIN rt[r].cb :
        rt[r].cb[i].before # rt[r].cb[i].sched

\* C9: after a scheduled callback has run, by return or by exception, the
\* program counter is the value it had right before the callback fired.
C9_CallbackRestoresPc ==
    \A r \in Runtimes : \A i \in DOMAIN rt[r].cb :
        rt[r].cb[i].after = rt[r].cb[i].before

\* A callback that raised after a counted method had run inside it, fired
\* under a live counter other than its saved one.
C9_Witness ==
    \E r \in Runtimes : \E i \in DOMAIN rt[r].cb :
        /\ rt[r].cb[i].raised
        /\ rt[r].cb[i].before # rt[r].cb[i].seen
        /\ \E j \in DOMAIN rt[r].ops : rt[r].ops[j].before = rt[r].cb[i].seen

\* C10: a counted method's body starts with the last entry incremented and a
\* zero level appended; when the call leaves, by return or by exception, the
\* counter has its old length and a last entry one larger.
C10_IncrementPcScoped ==
    \A r \in Runtimes : \A i \in DOMAIN rt[r].ops :
        LET o == rt[r].ops[i]
        IN  /\ o.entry = Append(IncrementedLast(o.before), 0)
            /\ Len(o.after) = Len(o.before)
            /\ Last(o.after) = Last(o.before) + 1

\* A counted method left by an exception, and one left by return.
C10_Witness ==
    \E r \in Runtimes : \E i, j \in DOMAIN rt[r].ops :
        rt[r].ops[i].raised /\ ~rt[r].ops[j].raised

----------------------------------------------------------------------------
(***************************************************************************)
(* The incoming queue of one connection (ShareExchanger.incoming_data): a  *)
(* dict from (program counter, data type) to a deque that holds payloads   *)
(* or Deferreds.  An item is [t |-> "data", v |-> payload] or              *)
(* [t |-> "deferred", v |-> the Deferred].                                 *)
(***************************************************************************)

Payload(data) == [t |-> "data", v |-> data]
Waiter(deferred) == [t |-> "deferred", v |-> deferred]
\* an isinstance test that never finds a Deferred
IsDeferredNever(item) == FALSE

\* isinstance(deq[0], Deferred)
IsDeferred(item) == item.t = "deferred"

\* dict.setdefault(key, deque()) as a value
Setdefault(dict, key) == IF key \in DOMAIN dict THEN dict[key] ELSE <<>>
DictSet(dict, key, val) ==
    [k \in DOMAIN dict \cup {key} |-> IF k = key THEN val ELSE dict[k]]
DictDel(dict, key) == [k \in DOMAIN dict \ {key} |-> dict[k]]

\* deq.pop(): the newest item
Pop(deq) == [item |-> Last(deq), rest |-> Front(deq)]

\* deq.popleft(): the oldest item
Popleft(deq) == [item |-> Head(deq), rest |-> Tail(deq)]

\* deq.popleft(); if not deq: del incoming_data[key]
PopleftAndClean(dict, key) ==
    LET rest == Popleft(dict[key]).rest
    IN  IF rest = <<>> THEN DictDel(dict, key) ELSE DictSet(dict, key, rest)

\* a stringReceived that buffers the data whatever the deque holds
StringReceivedBufferOnly(dict, key, data) ==
    [dict |-> DictSet(dict, key, Append(Setdefault(dict, key), Payload(data))),
     fired |-> <<>>]

\* ShareExchanger.stringReceived, the branch for data: the new dict, and the
\* Deferreds called back with their data.
StringReceived(dict, key, data) ==
    LET deq == Setdefault(dict, key)
    IN  IF deq # <<>> /\ IsDeferred(deq[1])
        THEN [dict |-> PopleftAndClean(dict, key),
              fired |-> << [deferred |-> Popleft(deq).item.v, data |-> data] >>]
        ELSE [dict |-> DictSet(dict, key, Append(deq, Payload(data))),
              fired |-> <<>>]

\* BasicRuntime._expect_data for one connection
ExpectData(dict, key, deferred) ==
    LET deq == Setdefault(dict, key)
    IN  IF deq # <<>> /\ ~IsDeferred(deq[1])
        THEN [dict |-> PopleftAndClean(dict, key),
              fired |-> << [deferred |-> deferred, data |-> Popleft(deq).item.v] >>]
        ELSE [dict |-> DictSet(dict, key, Append(deq, Waiter(deferred))),
              fired |-> <<>>]

MaxItems == 3
QueueKeys == {<< <<1, 0>>, "share" >>, << <<1, 0>>, "echo" >>}
QueueData == {"a", "b"}

InitQueue ==
    /\ incoming_data = <<>>
    /\ arrived = [k \in QueueKeys |-> <<>>]
    /\ registered = [k \in QueueKeys |-> <<>>]
    /\ resolved = {}
    /\ QueueOthersIdle

Resolutions(key, fired) ==
    {<<key, fired[i].deferred, fired[i].data>> : i \in DOMAIN fired}

\* A message for key arrives on the connection.
Receive(key, data) ==
    /\ Len(arrived[key]) < MaxItems
    /\ LET out == StringReceived(incoming_data, key, data)
       IN  /\ incoming_data' = out.dict
           /\ resolved' = resolved \cup Resolutions(key, out.fired)
    /\ arrived' = [arrived EXCEPT ![key] = Append(@, data)]
    /\ UNCHANGED registered
    /\ QueueFrame

\* The runtime expects data for key with a new Deferred, the next in number.
Expect(key) ==
    /\ Len(registered[key]) < MaxItems
    /\ LET deferred == Len(registered[key]) + 1
           out == ExpectData(incoming_data, key, deferred)
       IN  /\ incoming_data' = out.dict
           /\ resolved' = resolved \cup Resolutions(key, out.fired)
           /\ registered' = [registered EXCEPT ![key] = Append(@, deferred)]
    /\ UNCHANGED arrived
    /\ QueueFrame

NextQueue ==
    \/ \E key \in QueueKeys, data \in QueueData : Receive(key, data)
    \/ \E key \in QueueKeys : Expect(key)

SpecQueue == InitQueue /\ [][NextQueue]_vars

\* C2: for each key the k-th payload to arrive is delivered to the k-th
\* waiter registered, as soon as both exist; payloads beyond the waiters
\* stay buffered in arrival order.
C2_FifoMatching ==
    \A key \in QueueKeys :
        LET matched == Min(Len(arrived[key]), Len(registered[key]))
        IN  /\ {x \in resolved : x[1] = key} =
                  {<<key, registered[key][k], arrived[key][k]>> : k \in 1..matched}
            /\ Len(arrived[key]) > matched =>
                  /\ key \in DOMAIN incoming_data
                  /\ incoming_data[key] =
                        [k \in 1..(Len(arrived[key]) - matched) |->
                            Payload(arrived[key][matched + k])]

\* Two different payloads were buffered and then handed to two waiters, and
\* on another key a payload met a waiter that was already pending.
C2_Witness ==
    \E key, other \in QueueKeys :
        /\ Len(arrived[key]) >= 2 /\ arrived[key][1] # arrived[key][2]
        /\ <<key, 2, arrived[key][2]>> \in resolved
        /\ key \notin DOMAIN incoming_data
        /\ other # key /\ Len(arrived[other]) >= 1
        /\ <<other, 1, arrived[other][1]>> \in resolved

\* C12: no deque of the connection holds a payload and a Deferred at the
\* same time.
C12_NeverBoth ==
    \A key \in DOMAIN incoming_data :
        \A i, j \in DOMAIN incoming_data[key] :
            incoming_data[key][i].t = incoming_data[key][j].t

\* A key whose deque held a payload, which a waiter took, now holds two
\* waiters, while the deque of the other key holds two payloads.
C12_Witness ==
    \E key, other \in QueueKeys :
        /\ key \in DOMAIN incoming_data /\ Len(incoming_data[key]) = 2
        /\ incoming_data[key][1].t = "deferred"
        /\ Len(registered[key]) = 3 /\ Len(arrived[key]) = 1
        /\ other \in DOMAIN incoming_data /\ Len(incoming_data[other]) = 2
        /\ incoming_data[other][1].t = "data"

----------------------------------------------------------------------------
(***************************************************************************)
(* Field elements of Zp (IntegerFieldElement): a value in 0..modulus-1.    *)
(***************************************************************************)

\* IntegerFieldElement.__init__: self.value = value % self.modulus
ToField(value, modulus) == value % modulus
FAdd(a, b, modulus) == ToField(a + b, modulus)
FSub(a, b, modulus) == ToField(a - b, modulus)
FMul(a, b, modulus) == ToField(a * b, modulus)

\* extended_gcd(a, b)[0]: the loop of IntegerFieldElement.__invert__
RECURSIVE ExtendedGcd(_, _, _, _)
ExtendedGcd(a, b, x, lastx) ==
    IF b = 0 THEN lastx
    ELSE ExtendedGcd(b, a % b, lastx - (a \div b) * x, x)

\* IntegerFieldElement.__invert__
FInvert(a, modulus) == ToField(ExtendedGcd(a, modulus, 0, 1), modulus)
\* IntegerFieldElement.__div__: self * ~other
FDiv(a, b, modulus) == FMul(a, FInvert(b, modulus), modulus)

(***************************************************************************)
(* Shamir sharing (viff.shamir): share evaluates the polynomial with the   *)
(* given constant term and coefficients at the points 1..n; recombine      *)
(* interpolates the points it is given and evaluates at 0.                 *)
(***************************************************************************)

RECURSIVE PolyEval(_, _, _)
\* Horner: coefs[1] + x*(coefs[2] + x*(...))
PolyEval(coefs, x, modulus) ==
    IF coefs = <<>> THEN 0
    ELSE FAdd(Head(coefs), FMul(x, PolyEval(Tail(coefs), x, modulus), modulus),
              modulus)

\* shamir.share(secret, threshold, num_players) for one choice of the random
\* coefficients: the pairs (field(i), f(i)), i = 1..n
ShamirShare(value, coefs, n, modulus) ==
    [i \in 1..n |-> <<ToField(i, modulus), PolyEval(<<value>> \o coefs, i, modulus)>>]

RECURSIVE FProduct(_, _, _)
FProduct(f, S, modulus) ==
    IF S = {} THEN 1
    ELSE LET k == CHOOSE k \in S : TRUE
         IN  FMul(f[k], FProduct(f, S \ {k}, modulus), modulus)

RECURSIVE FSum(_, _, _)
FSum(f, S, modulus) ==
    IF S = {} THEN 0
    ELSE LET k == CHOOSE k \in S : TRUE
         IN  FAdd(f[k], FSum(f, S \ {k}, modulus), modulus)

\* shamir.recombine(shares): Lagrange interpolation at 0 of the (x, y) pairs
Recombine(points, modulus) ==
    LET I == DOMAIN points
        term(i) ==
            FMul(points[i][2],
                 FProduct([j \in I \ {i} |->
                              FDiv(FSub(0, points[j][1], modulus),
                                   FSub(points[i][1], points[j][1], modulus),
                                   modulus)],
                          I \ {i}, modulus),
                 modulus)
    IN  FSum([i \in I |-> term(i)], I, modulus)

(***************************************************************************)
(* ShareList: results (None or a (success, value) pair per share),         *)
(* missing_shares and called.  NoEntry is None.                            *)
(***************************************************************************)

NoEntry == [set |-> FALSE, ok |-> FALSE, v |-> <<>>]
Entry(success, result) == [set |-> TRUE, ok |-> success, v |-> result]

\* ShareList.__init__ up to the loop that attaches the shares
ShareListInit(n, threshold) ==
    [results |-> [k \in 1..n |-> NoEntry], missing_shares |-> threshold,
     called |-> FALSE]

NoList == ShareListInit(0, 0)

\* a ShareList that does not count the Shares that fail
CallbackFiredSuccessOnly(sl, index, success, result) ==
    IF ~success THEN sl
    ELSE LET s1 == [sl EXCEPT !.results[index] = Entry(success, result),
                              !.missing_shares = @ - 1]
         IN  IF ~s1.called /\ s1.missing_shares = 0
             THEN [s1 EXCEPT !.called = TRUE]
             ELSE s1

\* ShareList._callback_fired(result, index, success)
CallbackFired(sl, index, success, result) ==
    LET s1 == [sl EXCEPT !.results[index] = Entry(success, result),
                         !.missing_shares = @ - 1]
    IN  IF ~s1.called /\ s1.missing_shares = 0
        THEN [s1 EXCEPT !.called = TRUE]
        ELSE s1

\* ShareList.__init__: share.addCallbacks(...) for each share in index order;
\* a share that has its result already calls _callback_fired at once.
RECURSIVE AttachShares(_, _, _)
AttachShares(sl, shares, index) ==
    IF index > Len(shares) THEN sl
    ELSE AttachShares(IF shares[index].set
                      THEN CallbackFired(sl, index, shares[index].ok,
                                         shares[index].v)
                      ELSE sl,
                      shares, index + 1)

\* a ShareList that waits for all its shares whatever the threshold
ShareListWaitAll(shares, threshold) ==
    AttachShares(ShareListInit(Len(shares), Len(shares)), shares, 1)

\* ShareList(shares, threshold)
ShareList(shares, threshold) ==
    AttachShares(ShareListInit(Len(shares), threshold), shares, 1)

\* [result[1] for result in results if result is not None and result[0]]
RECURSIVE GoodSharesFrom(_, _)
GoodSharesFrom(results, k) ==
    IF k > Len(results) THEN <<>>
    ELSE IF results[k].set /\ results[k].ok
         THEN <<results[k].v>> \o GoodSharesFrom(results, k + 1)
         ELSE GoodSharesFrom(results, k + 1)

GoodShares(results) == GoodSharesFrom(results, 1)

\* a slice one short: [...][:threshold]
FilterGoodSharesShort(results, threshold) ==
    SubSeq(GoodShares(results), 1, Min(threshold, Len(GoodShares(results))))

\* Runtime._recombine.filter_good_shares: [...][:threshold+1]
FilterGoodShares(results, threshold) ==
    SubSeq(GoodShares(results), 1, Min(threshold + 1, Len(GoodShares(results))))

\* The callbacks _recombine adds to its ShareList, run on the results the
\* list holds when they run: filter_good_shares, then shamir.recombine.
RecombineResult(sl, threshold, modulus) ==
    Recombine(FilterGoodShares(sl.results, threshold), modulus)

----------------------------------------------------------------------------
(***************************************************************************)
(* Players that run open, or mul followed by open.  The state of player i: *)
(*   started      the application has issued its operations                *)
(*   a, b         the values of its input Shares                           *)
(*   inc          [peer -> incoming_data of the connection to that peer]   *)
(*   out          [peer -> messages sent by the handler that is running]   *)
(*   coefs        ghost: the random coefficients its resharing used        *)
(*   mul_list, mul_result    the ShareList of mul's _recombine, its result *)
(*   open_list, opened       the ShareList of open's _recombine, its result*)
(* A Deferred waiting in inc is [list, index]: the ShareList and the index *)
(* its result goes to.                                                     *)
(***************************************************************************)

Unset == [set |-> FALSE, v |-> 0]
Result(v) == [set |-> TRUE, v |-> v]

Players(c) == 1..c.n
Peers(c, i) == Players(c) \ {i}

\* The program counter inside a counted method called under pc.
EnterPc(pc) == Append(IncrementedLast(pc), 0)
\* The program counter after that method has returned.
LeavePc(pc) == IncrementedLast(pc)

\* mul is the application's first operation; its callbacks run under the
\* counter saved inside mul, and _shamir_share exchanges inside its own level.
MulPc == EnterPc(<<0>>)
ResharePc == EnterPc(MulPc)
\* open is the first operation, or the second one after mul; exchange runs
\* under the counter saved inside open.
OpenPc(c) == IF c.prog = "open" THEN EnterPc(<<0>>) ELSE EnterPc(LeavePc(<<0>>))

ShareMsg(pc, value) == [pc |-> pc, type |-> "share", data |-> value]

\* ShareExchanger.sendShare to each of the peers in to: value[j] goes to j
SendShares(p, to, pc, value) ==
    [p EXCEPT !.out = [j \in DOMAIN @ |->
                          IF j \in to THEN Append(@[j], ShareMsg(pc, value[j]))
                          ELSE @[j]]]

\* _expect_share from every peer under pc for the ShareList named list: the
\* connections afterwards, and for each peer the share that was buffered.
ExpectShares(c, p, pc, list) ==
    [j \in Peers(c, p.id) |->
        ExpectData(p.inc[j], <<pc, "share">>, [list |-> list, index |-> j])]

\* The Shares handed to _recombine: the player's own (id, share) pair, and
\* for each peer the pair of its id and the share expected from it.
GatheredShares(c, p, exp, own) ==
    [k \in Players(c) |->
        IF k = p.id THEN Entry(TRUE, <<ToField(k, c.modulus), own>>)
        ELSE IF exp[k].fired # <<>>
             THEN Entry(TRUE, <<ToField(k, c.modulus),
                                ToField(exp[k].fired[1].data, c.modulus)>>)
             ELSE NoEntry]

\* Runtime.open.exchange(share), with the _recombine(deferreds, threshold)
\* it ends with
OpenExchange(c, p, share) ==
    LET pc == OpenPc(c)
        p1 == SendShares(p, Peers(c, p.id), pc, [j \in Peers(c, p.id) |-> share])
        exp == ExpectShares(c, p1, pc, "open")
        sl == ShareList(GatheredShares(c, p1, exp, share), c.t + 1)
        p2 == [p1 EXCEPT !.inc = [j \in Peers(c, p.id) |-> exp[j].dict],
                         !.open_list = sl]
    IN  IF sl.called
        THEN [p2 EXCEPT !.opened = Result(RecombineResult(sl, c.t, c.modulus))]
        ELSE p2

\* The result of mul resolves: the exchange that open scheduled on it runs.
MulResolved(c, p, value) ==
    OpenExchange(c, [p EXCEPT !.mul_result = Result(value)], value)

\* Runtime.mul with both Shares resolved: the product, _shamir_share of it
\* with the coefficients coefs, and _recombine(shares, threshold=2*t)
Mul(c, p, coefs) ==
    LET number == FMul(p.a, p.b, c.modulus)
        shares == ShamirShare(number, coefs, c.n, c.modulus)
        exp == ExpectShares(c, p, ResharePc, "mul")
        p1 == SendShares(p, Peers(c, p.id), ResharePc,
                         [j \in Peers(c, p.id) |-> shares[j][2]])
        sl == ShareList(GatheredShares(c, p1, exp, shares[p.id][2]), 2 * c.t + 1)
        p2 == [p1 EXCEPT !.inc = [j \in Peers(c, p.id) |-> exp[j].dict],
                         !.mul_list = sl, !.coefs = coefs]
    IN  IF sl.called
        THEN MulResolved(c, p2, RecombineResult(sl, 2 * c.t, c.modulus))
        ELSE p2

\* A share expected from peer arrives for the Deferred w: the callbacks
\* field(value) and (peer_id, share), then ShareList._callback_fired.
ShareArrived(c, p, w, peer, data) ==
    LET pair == <<ToField(peer, c.modulus), ToField(data, c.modulus)>>
    IN  IF w.list = "open"
        THEN LET sl == CallbackFired(p.open_list, w.index, TRUE, pair)
                 p1 == [p EXCEPT !.open_list = sl]
             IN  IF sl.called /\ ~p.open_list.called
                 THEN [p1 EXCEPT !.opened =
                          Result(RecombineResult(sl, c.t, c.modulus))]
                 ELSE p1
        ELSE LET sl == CallbackFired(p.mul_list, w.index, TRUE, pair)
                 p1 == [p EXCEPT !.mul_list = sl]
             IN  IF sl.called /\ ~p.mul_list.called
                 THEN MulResolved(c, p1, RecombineResult(sl, 2 * c.t, c.modulus))
                 ELSE p1

\* ShareExchanger.stringReceived on the connection to peer
DataReceived(c, p, peer, msg) ==
    LET r == StringReceived(p.inc[peer], <<msg.pc, msg.type>>, msg.data)
        p1 == [p EXCEPT !.inc[peer] = r.dict]
    IN  IF r.fired = <<>> THEN p1
        ELSE ShareArrived(c, p1, r.fired[1].deferred, peer, msg.data)

InitPlayer(c, i, a, b) ==
    [id |-> i, started |-> FALSE, a |-> a, b |-> b,
     inc |-> [j \in Peers(c, i) |-> <<>>],
     out |-> [j \in Peers(c, i) |-> <<>>],
     coefs |-> <<>>,
     mul_list |-> NoList, mul_result |-> Unset,
     open_list |-> NoList, opened |-> Unset]

Channels(c) == {ch \in Players(c) \X Players(c) : ch[1] # ch[2]}

\* The players that never run their application in this run (crashed or
\* unwilling): none unless the run names them.
Silent(c) == IF "silent" \in DOMAIN c THEN c.silent ELSE {}

\* What player i sent goes onto its connections, and its out is empty again.
Flush(i, p, skip) ==
    /\ net' = [ch \in DOMAIN net |->
                 LET rest == IF ch = skip THEN Tail(net[ch]) ELSE net[ch]
                 IN  IF ch[1] = i THEN rest \o p.out[ch[2]] ELSE rest]
    /\ pl' = [pl EXCEPT ![i] = [p EXCEPT !.out = [j \in DOMAIN @ |-> <<>>]]]

\* Player i's application runs: open(share), or open(mul(share_a, share_b)).
Start(i) ==
    /\ ~pl[i].started
    /\ i \notin Silent(cfg)
    /\ \E coefs \in cfg.coins[i] :
          LET me == [pl[i] EXCEPT !.started = TRUE]
          IN  Flush(i, IF cfg.prog = "open" THEN OpenExchange(cfg, me, me.a)
                       ELSE Mul(cfg, me, coefs),
                    <<>>)
    /\ UNCHANGED <<cfg, secret>>
    /\ ShareFrame

\* The oldest message in flight from player j reaches player i.
Deliver(j, i) ==
    /\ i \notin cfg.stalled
    /\ net[<<j, i>>] # <<>>
    /\ Flush(i, DataReceived(cfg, pl[i], j, Head(net[<<j, i>>])), <<j, i>>)
    /\ UNCHANGED <<cfg, secret>>
    /\ ShareFrame

NextShare ==
    \/ \E i \in Players(cfg) : Start(i)
    \/ \E ch \in Channels(cfg) : Deliver(ch[1], ch[2])

\* The inputs: the field, the players, the secrets with the coefficients of
\* their sharing polynomials, the coefficients each player's resharing may
\* draw, and the players whose incoming data stays in flight during the run.
Input(prog, n, t, modulus, a, ca, b, cb, coins, stalled) ==
    [prog |-> prog, n |-> n, t |-> t, modulus |-> modulus,
     a |-> a, ca |-> ca, b |-> b, cb |-> cb, coins |-> coins,
     stalled |-> stalled]

NoCoins(n) == [i \in 1..n |-> {<<>>}]

OpenInputs ==
    {Input("open", 3, 1, 5, a, <<k>>, 0, <<0>>, NoCoins(3), {}) : a \in 0..4, k \in 0..4}
    \cup {Input("open", 3, 1, 31, 42 % 31, <<k>>, 0, <<0>>, NoCoins(3), {}) : k \in {1, 30}}
    \cup {Input("open", 4, 1, 5, 3, <<k>>, 0, <<0>>, NoCoins(4), {}) : k \in {0, 2}}

InitShare(inputs) ==
    /\ \E x \in inputs :
          /\ cfg = [prog |-> x.prog, n |-> x.n, t |-> x.t, modulus |-> x.modulus,
                    coins |-> x.coins, stalled |-> x.stalled]
          /\ secret = [a |-> ToField(x.a, x.modulus), b |-> ToField(x.b, x.modulus)]
          /\ pl = [i \in 1..x.n |->
                     InitPlayer(x, i,
                                ShamirShare(ToField(x.a, x.modulus), x.ca, x.n, x.modulus)[i][2],
                                ShamirShare(ToField(x.b, x.modulus), x.cb, x.n, x.modulus)[i][2])]
          /\ net = [ch \in Channels(x) |-> <<>>]
    /\ ShareOthersIdle

InitOpen == InitShare(OpenInputs)

SpecOpen == InitOpen /\ [][NextShare]_vars

\* C3: when every player holds f(i) for one polynomial f of degree at most
\* threshold, the Share returned by open resolves to f(0) at every player.
C3_OpenReconstructs ==
    \A i \in DOMAIN pl : pl[i].opened.set => pl[i].opened.v = secret.a

\* The three players of the scenario (threshold 1, modulus 31, secret 42)
\* have all opened, and one of them got a peer's share before it called open.
C3_Witness ==
    /\ cfg.n = 3 /\ cfg.modulus = 31
    /\ \A i \in DOMAIN pl : pl[i].opened.set /\ pl[i].opened.v = 42 % 31
    /\ \E i \in DOMAIN pl : \A k \in DOMAIN pl : pl[i].open_list.results[k].set

(***************************************************************************)
(* open when some players stay silent.                                     *)
(***************************************************************************)

\* The runs of open in which up to n - (t+1) players never call open and so
\* never send their share.
SilentInputs ==
    {[x \in {"silent"} |-> q] @@ Input("open", 3, 1, 5, a, <<k>>, 0, <<0>>, NoCoins(3), {}) :
        a \in {2, 4}, k \in {0, 3}, q \in {{}, {1}, {3}}}
    \cup {[x \in {"silent"} |-> q] @@ Input("open", 4, 1, 5, 3, <<2>>, 0, <<0>>, NoCoins(4), {}) :
             q \in {{3, 4}, {1, 2}}}

InitSilent ==
    /\ \E x \in SilentInputs :
          /\ cfg = [prog |-> x.prog, n |-> x.n, t |-> x.t, modulus |-> x.modulus,
                    coins |-> x.coins, stalled |-> x.stalled, silent |-> x.silent]
          /\ secret = [a |-> ToField(x.a, x.modulus), b |-> ToField(x.b, x.modulus)]
          /\ pl = [i \in 1..x.n |->
                     InitPlayer(x, i,
                                ShamirShare(ToField(x.a, x.modulus), x.ca, x.n, x.modulus)[i][2],
                                0)]
          /\ net = [ch \in Channels(x) |-> <<>>]
    /\ ShareOthersIdle

SpecSilent == InitSilent /\ [][NextShare]_vars

\* Some application is yet to run or some message is yet to be handed over.
SharePending ==
    \/ \E i \in Players(cfg) : ~pl[i].started /\ i \notin Silent(cfg)
    \/ \E ch \in Channels(cfg) : net[ch] # <<>> /\ ch[2] \notin cfg.stalled

\* Enabled exactly when NextShare is; no step of the system is of this form.
SharePendingOnly ==
    SharePending /\ cfg' = <<>> /\ UNCHANGED <<secret, pl, net>> /\ ShareFrame

\* The reactor runs every application that is willing to run and hands
\* over every message in flight.
ShareFairness == WF_vars(SharePendingOnly \/ NextShare)

FairSpecSilent == SpecSilent /\ ShareFairness

\* The shares a player's open has got so far, its own included.
SharesAvailable(p) ==
    Cardinality({k \in DOMAIN p.open_list.results : p.open_list.results[k].set})

OpenedSecret(i) == pl[i].opened.set /\ pl[i].opened.v = secret.a

\* C14: a player's open has resolved, with the secret, whenever threshold+1
\* shares are available to it, and every player that calls open eventually
\* has the secret, whether or not the silent players ever send.
C14_OpenDespiteSilence ==
    /\ [](\A i \in DOMAIN pl :
            (pl[i].started /\ SharesAvailable(pl[i]) >= cfg.t + 1) => OpenedSecret(i))
    /\ <>(\A i \in DOMAIN pl : i \notin Silent(cfg) => OpenedSecret(i))

\* Two of four players stay silent, the other two have opened with exactly
\* threshold+1 shares, and nothing is in flight any more.
C14_Witness ==
    /\ cfg.n = 4 /\ Cardinality(Silent(cfg)) = cfg.n - (cfg.t + 1)
    /\ \A i \in DOMAIN pl : i \notin Silent(cfg) =>
          OpenedSecret(i) /\ SharesAvailable(pl[i]) = cfg.t + 1
    /\ \A ch \in DOMAIN net : net[ch] = <<>>

----------------------------------------------------------------------------
(***************************************************************************)
(* open(mul(share_a, share_b)) with the passive, resharing multiplication. *)
(***************************************************************************)

\* Three players reshare with any of two coefficients each; four players
\* (threshold 1, so 2t+1 = 3 < n) reshare with one fixed coefficient each,
\* the coefficients of the four not being the values of one polynomial of
\* degree 2t, and the run is followed while nothing has reached player 4
\* yet.
MulInputs ==
    {Input("mul", 3, 1, 5, x[1], <<x[2]>>, x[3], <<x[4]>>,
           [i \in 1..3 |-> {<<0>>, <<i + 1>>}], {}) :
        x \in {<<2, 1, 3, 4>>, <<4, 0, 4, 3>>}}
    \cup {Input("mul", 4, 1, 5, 2, <<1>>, 3, <<2>>, [i \in 1..4 |-> {<<i * i * i % 5>>}], {4})}

InitMul == InitShare(MulInputs)

SpecMul == InitMul /\ [][NextShare]_vars

\* C4: every player's opened value of mul(share_a, share_b) is a*b.
C4_MulOpensProduct ==
    \A i \in DOMAIN pl :
        pl[i].opened.set => pl[i].opened.v = FMul(secret.a, secret.b, cfg.modulus)

\* C4 for exactly 2t+1 players, where every player recombines all the shares.
C4_MulOpensProductMinimal ==
    cfg.n = 2 * cfg.t + 1 => C4_MulOpensProduct

\* Two of four players have opened, after they recombined the reshared
\* products of different sets of 2t+1 players.
C4_Witness ==
    /\ cfg.n = 4
    /\ \E i, j \in DOMAIN pl : i # j /\ pl[i].opened.set /\ pl[j].opened.set
    /\ \E i, j \in DOMAIN pl :
          FilterGoodShares(pl[i].mul_list.results, 2 * cfg.t)
             # FilterGoodShares(pl[j].mul_list.results, 2 * cfg.t)

----------------------------------------------------------------------------
(***************************************************************************)
(* ActiveRuntime._broadcast: one Bracha broadcast.  The honest players run *)
(* the code; a corrupt player sends any send, echo or ready message to any *)
(* honest player.  The state of honest player i:                           *)
(*   called, raised   _broadcast has been called; it raised an exception   *)
(*   inc, out         as for the players above                             *)
(*   bracha_echo, bracha_ready        [message -> list of player ids]      *)
(*   bracha_sent_ready, bracha_delivered   [message -> BOOLEAN]            *)
(*   result           the values result.callback was called with, in order *)
(*   heard            ghost: the (corrupt player, type) pairs received     *)
(* The dicts are total functions that hold the setdefault value for a      *)
(* message not yet seen.  A Deferred waiting in inc is [kind, peer]: the   *)
(* callback and its peer_id argument.                                      *)
(***************************************************************************)

Messages == {"X", "Y"}
DataTypes == {"send", "echo", "ready"}

Honest(c) == Players(c) \ c.corrupt

\* broadcast and _broadcast are counted methods: pc inside _broadcast
BrachaPc == EnterPc(EnterPc(<<0>>))

BrachaMsg(data_type, message) ==
    [pc |-> BrachaPc, type |-> data_type, data |-> message]

BWaiter(kind, peer_id) == [kind |-> kind, peer |-> peer_id]

\* ceil(x/2) under true division
CeilHalf(x) == (x + 1) \div 2

\* an echo threshold of t+1
EchoEnoughLow(c, ids, ready) == Len(ids) >= c.t + 1 /\ ~ready

\* len(ids) >= ceil((n+t+1)/2) and not ready
EchoEnough(c, ids, ready) == Len(ids) >= CeilHalf(c.n + c.t + 1) /\ ~ready

\* an amplification after t ready messages
ReadyAmplifiesEarly(c, ids, ready) == Len(ids) = c.t /\ ~ready

\* no amplification of ready messages
ReadyAmplifiesNever(c, ids, ready) == FALSE

\* len(ids) == t+1 and not ready
ReadyAmplifies(c, ids, ready) == Len(ids) = c.t + 1 /\ ~ready

\* a delivery after 2t ready messages
ReadyDeliversEarly(c, ids, delivered) == Len(ids) = 2 * c.t /\ ~delivered

\* len(ids) == 2*t+1 and not delivered
ReadyDelivers(c, ids, delivered) == Len(ids) = 2 * c.t + 1 /\ ~delivered

\* unsafe_broadcast(data_type, message): sendData on every protocol
UnsafeBroadcast(p, data_type, message) ==
    [p EXCEPT !.out = [j \in DOMAIN @ |->
                          Append(@[j], BrachaMsg(data_type, message))]]

\* ready_received(message, peer_id)
RECURSIVE ReadyReceived(_, _, _, _)
ReadyReceived(c, p, message, peer_id) ==
    IF peer_id \in Range(p.bracha_ready[message]) THEN p
    ELSE LET ids == Append(p.bracha_ready[message], peer_id)
             p1 == [p EXCEPT !.bracha_ready[message] = ids]
         IN  IF ReadyAmplifies(c, ids, p1.bracha_sent_ready[message])
             THEN ReadyReceived(c,
                     UnsafeBroadcast([p1 EXCEPT !.bracha_sent_ready[message] = TRUE],
                                     "ready", message),
                     message, p.id)
             ELSE IF ReadyDelivers(c, ids, p1.bracha_delivered[message])
             THEN [p1 EXCEPT !.bracha_delivered[message] = TRUE,
                             !.result = Append(@, message)]
             ELSE p1

\* echo_received(message, peer_id)
EchoReceived(c, p, message, peer_id) ==
    IF peer_id \in Range(p.bracha_echo[message]) THEN p
    ELSE LET ids == Append(p.bracha_echo[message], peer_id)
             p1 == [p EXCEPT !.bracha_echo[message] = ids]
         IN  IF EchoEnough(c, ids, p1.bracha_sent_ready[message])
             THEN ReadyReceived(c,
                     UnsafeBroadcast([p1 EXCEPT !.bracha_sent_ready[message] = TRUE],
                                     "ready", message),
                     message, p.id)
             ELSE p1

\* send_received(message)
SendReceived(c, p, message) ==
    EchoReceived(c, UnsafeBroadcast(p, "echo", message), message, p.id)

\* The callback of the Deferred w runs with data.
BrachaCallback(c, p, w, data) ==
    CASE w.kind = "send" -> SendReceived(c, p, data)
      [] w.kind = "echo" -> EchoReceived(c, p, data, w.peer)
      [] w.kind = "ready" -> ReadyReceived(c, p, data, w.peer)

\* _expect_data(peer_id, data_type, deferred) with its assert: expecting data
\* from oneself raises (AssertionError; without asserts the KeyError of
\* self.protocols[peer_id], which has no entry for the player itself).
BrachaExpect(c, p, peer_id, data_type) ==
    IF peer_id = p.id THEN [p EXCEPT !.raised = TRUE]
    ELSE LET w == BWaiter(data_type, peer_id)
             r == ExpectData(p.inc[peer_id], <<BrachaPc, data_type>>, w)
             p1 == [p EXCEPT !.inc[peer_id] = r.dict]
         IN  IF r.fired = <<>> THEN p1
             ELSE BrachaCallback(c, p1, w, r.fired[1].data)

\* for peer_id in self.players: if peer_id != self.id: expect echo and ready
RECURSIVE ExpectEchoReady(_, _, _)
ExpectEchoReady(c, p, peer_id) ==
    IF peer_id > c.n THEN p
    ELSE IF peer_id = p.id THEN ExpectEchoReady(c, p, peer_id + 1)
    ELSE ExpectEchoReady(c,
            BrachaExpect(c, BrachaExpect(c, p, peer_id, "echo"), peer_id, "ready"),
            peer_id + 1)

\* ActiveRuntime._broadcast(sender, message)
Broadcast(c, p, sender, message) ==
    LET p1 == BrachaExpect(c, [p EXCEPT !.called = TRUE], sender, "send")
    IN  IF p1.raised THEN p1
        ELSE LET p2 == ExpectEchoReady(c, p1, 1)
             IN  IF p.id = sender
                 THEN SendReceived(c, UnsafeBroadcast(p2, "send", message), message)
                 ELSE p2

\* ShareExchanger.stringReceived on the connection to peer
BrachaDataReceived(c, p, peer, msg) ==
    LET r == StringReceived(p.inc[peer], <<msg.pc, msg.type>>, msg.data)
        p1 == [p EXCEPT !.inc[peer] = r.dict]
    IN  IF r.fired = <<>> THEN p1
        ELSE BrachaCallback(c, p1, r.fired[1].deferred, msg.data)

InitBrachaPlayer(c, i) ==
    [id |-> i, called |-> FALSE, raised |-> FALSE,
     inc |-> [j \in Peers(c, i) |-> <<>>],
     out |-> [j \in Peers(c, i) |-> <<>>],
     bracha_echo |-> [m \in Messages |-> <<>>],
     bracha_ready |-> [m \in Messages |-> <<>>],
     bracha_sent_ready |-> [m \in Messages |-> FALSE],
     bracha_delivered |-> [m \in Messages |-> FALSE],
     result |-> <<>>,
     heard |-> {}]

HonestChannels(c) == {ch \in Honest(c) \X Honest(c) : ch[1] # ch[2]}

\* What honest player i sent goes onto its connections to the honest players.
BrachaFlush(i, p, skip) ==
    /\ bnet' = [ch \in DOMAIN bnet |->
                  LET rest == IF ch = skip THEN Tail(bnet[ch]) ELSE bnet[ch]
                  IN  IF ch[1] = i THEN rest \o p.out[ch[2]] ELSE rest]
    /\ bp' = [bp EXCEPT ![i] = [p EXCEPT !.out = [j \in DOMAIN @ |-> <<>>]]]

\* Honest player i's application calls broadcast([sender], message).
BrachaStart(i) ==
    /\ ~bp[i].called
    /\ BrachaFlush(i, Broadcast(bc, bp[i], bc.sender, bc.message), <<>>)
    /\ UNCHANGED bc
    /\ BrachaFrame

\* The oldest message in flight from honest player j reaches honest player i.
BrachaDeliver(j, i) ==
    /\ bnet[<<j, i>>] # <<>>
    /\ BrachaFlush(i, BrachaDataReceived(bc, bp[i], j, Head(bnet[<<j, i>>])),
                   <<j, i>>)
    /\ UNCHANGED bc
    /\ BrachaFrame

\* A message of corrupt player k reaches honest player i.  Each connection
\* has one Deferred per data type, so only the first message of a type that
\* k sends to i is ever handed to the protocol.
CorruptSend(k, i, data_type, message) ==
    /\ <<k, data_type>> \notin bp[i].heard
    /\ BrachaFlush(i, BrachaDataReceived(bc,
                         [bp[i] EXCEPT !.heard = @ \cup {<<k, data_type>>}],
                         k, BrachaMsg(data_type, message)),
                   <<>>)
    /\ UNCHANGED bc
    /\ BrachaFrame

NextBracha ==
    \/ \E i \in Honest(bc) : BrachaStart(i)
    \/ \E ch \in HonestChannels(bc) : BrachaDeliver(ch[1], ch[2])
    \/ \E mv \in bc.moves : CorruptSend(mv[1], mv[2], mv[3], mv[4])

\* A message a corrupt player may send: <<from, to, type, message>>
Move(k, i, data_type, message) == <<k, i, data_type, message>>

\* Corrupt sender 4 sends X to players 1 and 2 and Y to player 3, and backs X
\* with echo and ready messages.
EquivocateMoves ==
    {Move(4, 1, "send", "X"), Move(4, 2, "send", "X"), Move(4, 3, "send", "Y"),
     Move(4, 1, "echo", "X"), Move(4, 2, "echo", "X"), Move(4, 1, "ready", "X")}

\* Corrupt sender 4 sends X to player 1 and Y to players 2 and 3, and backs
\* either value at players 1 and 2.
SplitMoves ==
    {Move(4, 1, "send", "X"), Move(4, 2, "send", "Y"), Move(4, 3, "send", "Y"),
     Move(4, 1, "echo", "X"), Move(4, 2, "ready", "X"), Move(4, 1, "ready", "Y"),
     Move(4, 2, "echo", "Y")}

\* Corrupt player 4 is not the sender: it sends echo and ready messages.
BystanderMoves ==
    {Move(4, i, ty, m) : i \in {2, 3}, ty \in {"echo", "ready"}, m \in Messages}

\* Corrupt sender 4 sends X to every honest player and backs Y with echo and
\* ready messages.
ContradictMoves ==
    {Move(4, i, "send", "X") : i \in 1..3}
    \cup {Move(4, 1, "echo", "Y"), Move(4, 1, "ready", "Y"), Move(4, 2, "ready", "Y")}

Instance(corrupt, sender, moves) ==
    [n |-> 4, t |-> 1, corrupt |-> corrupt, sender |-> sender, message |-> "X",
     moves |-> moves]

\* Four players with threshold 1: a corrupt sender, an honest sender next to
\* a corrupt player, and an honest sender among honest players.
FairBrachaInstances ==
    {Instance({4}, 4, EquivocateMoves), Instance({4}, 1, BystanderMoves),
     Instance({}, 1, {})}

BrachaInstances ==
    FairBrachaInstances
    \cup {Instance({4}, 4, SplitMoves), Instance({4}, 4, ContradictMoves)}

InitBrachaFrom(instances) ==
    /\ bc \in instances
    /\ bp = [i \in Honest(bc) |-> InitBrachaPlayer(bc, i)]
    /\ bnet = [ch \in HonestChannels(bc) |-> <<>>]
    /\ BrachaOthersIdle

InitBracha == InitBrachaFrom(BrachaInstances)

SpecBracha == InitBracha /\ [][NextBracha]_vars

\* A step of an honest player.
HonestStep ==
    \/ \E i \in Honest(bc) : BrachaStart(i)
    \/ \E ch \in HonestChannels(bc) : BrachaDeliver(ch[1], ch[2])

\* An honest step is enabled exactly when an application has yet to call
\* broadcast or a message between honest players is in flight.
HonestPending ==
    \/ \E i \in DOMAIN bp : ~bp[i].called
    \/ \E ch \in DOMAIN bnet : bnet[ch] # <<>>

\* The enabling condition of HonestStep as an action that is no step of
\* NextBracha (no step changes bc): with it in front, ENABLED of the fairness
\* action is decided by HonestPending, without running a handler, and the
\* steps of a behaviour that satisfy the action are those of HonestStep.
PendingOnly ==
    HonestPending /\ bc' = <<>> /\ UNCHANGED <<bp, bnet>> /\ BrachaFrame

\* The reactor keeps running the honest players: while an application has
\* yet to call broadcast or a message between honest players is in flight,
\* one of them takes a step.  No step of another player withdraws a call or
\* a message, so every call is made and every message arrives.  The corrupt
\* players owe nothing.
BrachaFairness == WF_vars(PendingOnly \/ HonestStep)

InitBrachaFair == InitBrachaFrom(FairBrachaInstances)

FairSpecBracha == InitBrachaFair /\ [][NextBracha]_vars /\ BrachaFairness

Delivered(i) == Range(bp[i].result)

\* C5: with fewer than n/3 corrupt players, no two values delivered by
\* honest players in one broadcast differ.
C5_Agreement ==
    \A i, j \in DOMAIN bp : \A a \in Delivered(i), b \in Delivered(j) : a = b

\* The corrupt sender sent X to two players and Y to the third, who echoed
\* Y, and all three honest players delivered X.
C5_Witness ==
    /\ bc.sender \in bc.corrupt
    /\ \A i \in DOMAIN bp : bp[i].result = <<"X">>
    /\ \E i \in DOMAIN bp : i \in Range(bp[i].bracha_echo["Y"])

\* C6: when the sender is honest, every honest player, the sender included,
\* eventually delivers the sender's message.
C6_HonestSenderDelivers ==
    (bc.sender \in Honest(bc)) =>
        <>(\A i \in Honest(bc) : bp[i].result = <<bc.message>>)

\* All four players are honest and have called broadcast; the sender's call
\* raised, nothing is in flight and nobody has delivered.
C6_Witness ==
    /\ bc.corrupt = {}
    /\ \A i \in DOMAIN bp : bp[i].called /\ bp[i].result = <<>>
    /\ bp[bc.sender].raised
    /\ \A ch \in DOMAIN bnet : bnet[ch] = <<>>

\* C7: a value delivered by one honest player is eventually delivered by
\* every honest player.
C7_Totality ==
    \A m \in Messages :
        (\E i \in DOMAIN bp : m \in Delivered(i))
            ~> (\A j \in DOMAIN bp : m \in Delivered(j))

\* The sender is corrupt and every honest player delivered X, one of them
\* without ever handling a send or an echo of its own for X.
C7_Witness ==
    /\ bc.sender \in bc.corrupt
    /\ \A i \in DOMAIN bp : "X" \in Delivered(i)
    /\ \E i \in DOMAIN bp : i \notin Range(bp[i].bracha_echo["X"])

----------------------------------------------------------------------------
(***************************************************************************)
(* Share objects.  A Share is a Deferred:                                  *)
(*   called    callback or errback has been called                         *)
(*   result    the current result: a value, a list of values, a Failure    *)
(*   paused    a callback returned a Deferred the Share now waits for      *)
(*   cbs       the callback chain, a sequence of (callback, errback) pairs *)
(*   sl        for a ShareList its results and missing_shares, or NoList   *)
(* A callback is [f, target, index, success, m]: the function, the Share   *)
(* or ShareList it refers to, its callbackArgs, and the field modulus.     *)
(***************************************************************************)

NoResult == [k |-> "none", v |-> 0, l |-> <<>>]
Val(v) == [k |-> "val", v |-> v, l |-> <<>>]
ListVal(l) == [k |-> "list", v |-> 0, l |-> l]
\* self.results of a ShareList, handed on as the list object itself
ResultsVal(l) == [k |-> "results", v |-> 0, l |-> l]
\* None, which a callback without a return statement leaves as the result
NoneVal == [k |-> "None", v |-> 0, l |-> <<>>]
Failure == [k |-> "fail", v |-> 0, l |-> <<>>]
IsFailure(x) == x.k = "fail"

Fn(f, target, index, success, m) ==
    [f |-> f, target |-> target, index |-> index, success |-> success, m |-> m]
\* the place of a missing callback or errback in addCallback/addErrback
PassThru == Fn("passthru", 0, 0, FALSE, 0)

\* Share.__init__ without a value
NewShare == [called |-> FALSE, result |-> NoResult, paused |-> FALSE,
             cbs |-> <<>>, sl |-> NoList]

\* a Deferred that accepts a second callback
AlreadyCalledNever(obj) == FALSE

\* Deferred.callback / errback: if self.called: raise AlreadyCalledError
AlreadyCalled(obj) == obj.called

\* a sub that adds
ArithAddOnly(f, l, m) ==
    IF \E i \in DOMAIN l : l[i].k # "val" THEN [raised |-> TRUE, ret |-> Failure]
    ELSE [raised |-> FALSE, ret |-> Val(FAdd(l[1].v, l[2].v, m))]

\* a + b and a - b on field elements or integers: the result is an element
\* of the field; a Failure operand raises TypeError
Arith(f, l, m) ==
    IF \E i \in DOMAIN l : l[i].k # "val" THEN [raised |-> TRUE, ret |-> Failure]
    ELSE [raised |-> FALSE,
          ret |-> Val(IF f = "add" THEN FAdd(l[1].v, l[2].v, m)
                      ELSE FSub(l[1].v, l[2].v, m))]

RECURSIVE DeferredCallback(_, _, _), RunDeferred(_, _), ApplyCallback(_, _, _)

\* Deferred.callback(result) and Deferred.errback(fail) on the Share d
DeferredCallback(heap, d, result) ==
    IF AlreadyCalled(heap[d]) THEN [heap |-> heap, raised |-> TRUE]
    ELSE [heap |-> RunDeferred([heap EXCEPT ![d].called = TRUE,
                                            ![d].result = result], d),
          raised |-> FALSE]

\* Deferred._runCallbacks: each pair in order; the callback for a value, the
\* errback for a Failure; an exception makes the result a Failure.
RunDeferred(heap, d) ==
    IF heap[d].cbs = <<>> \/ heap[d].paused THEN heap
    ELSE LET item == Head(heap[d].cbs)
             h1 == [heap EXCEPT ![d].cbs = Tail(@)]
             use == IF IsFailure(h1[d].result) THEN item.eb ELSE item.cb
         IN  IF use = PassThru THEN RunDeferred(h1, d)
             ELSE LET r == ApplyCallback(h1, use, h1[d].result)
                      h2 == [r.heap EXCEPT ![d].result =
                                IF r.raised THEN Failure ELSE r.ret]
                  IN  RunDeferred(IF r.ret.k = "deferred"
                                  THEN [h2 EXCEPT ![d].paused = TRUE]
                                  ELSE h2, d)

\* One callback applied to result: the heap afterwards, what it returned,
\* and whether it raised.
ApplyCallback(heap, fn, result) ==
    CASE fn.f = "field" ->
            \* _expect_share: lambda value: field(value)
            [heap |-> heap, raised |-> FALSE, ret |-> Val(ToField(result.v, fn.m))]
      [] fn.f = "split_result" ->
            \* Share.clone.split_result: clone.callback(result); return result
            LET r == DeferredCallback(heap, fn.target, result)
            IN  [heap |-> r.heap, raised |-> r.raised, ret |-> result]
      [] fn.f = "_callback_fired" ->
            \* ShareList._callback_fired(result, index, success)
            LET old == heap[fn.target].sl
                new == CallbackFired(old, fn.index, fn.success, result)
                \* a ShareList whose value is still self.results sees the entry
                h1 == [heap EXCEPT ![fn.target].sl = new,
                                   ![fn.target].result =
                                       IF @.k = "results" THEN ResultsVal(new.results)
                                       ELSE @]
            IN  [heap |-> IF new.called /\ ~old.called
                          THEN DeferredCallback(h1, fn.target,
                                                ResultsVal(new.results)).heap
                          ELSE h1,
                 raised |-> FALSE, ret |-> result]
      [] fn.f = "filter_results" ->
            \* gather_shares.filter_results: [share for (_, share) in results]
            [heap |-> heap, raised |-> FALSE,
             ret |-> ListVal([i \in DOMAIN result.l |-> result.l[i].v])]
      [] fn.f \in {"add", "sub"} ->
            \* Runtime.add / Runtime.sub: lambda (a, b): a + b, a - b
            [heap |-> heap] @@ Arith(fn.f, result.l, fn.m)
      [] fn.f = "exchange" ->
            \* Runtime.open.exchange: sends the share and returns the Share of
            \* _recombine, which the result then waits for
            [heap |-> heap, raised |-> FALSE,
             ret |-> [k |-> "deferred", v |-> result.v, l |-> <<>>]]
      [] fn.f = "filter_good_shares" ->
            \* Runtime._recombine.filter_good_shares, fn.index the threshold
            [heap |-> heap, raised |-> FALSE,
             ret |-> ListVal(FilterGoodShares(result.l, fn.index))]
      [] fn.f = "recombine" ->
            \* shamir.recombine on a list of (x, y) pairs
            [heap |-> heap, raised |-> FALSE,
             ret |-> Val(Recombine([i \in DOMAIN result.l |->
                                      <<result.l[i].l[1], result.l[i].v>>],
                                   fn.m))]
      [] fn.f = "assertEquals" ->
            \* TestCase.assertEquals(result, expected): raises unless they are
            \* equal, and returns None
            [heap |-> heap, raised |-> result # Val(fn.index), ret |-> NoneVal]

\* Deferred.addCallbacks(callback, errback): the pair joins the chain and
\* runs at once when the Share has been called
AddCallbacks(heap, d, cb, eb) ==
    LET h1 == [heap EXCEPT ![d].cbs = Append(@, [cb |-> cb, eb |-> eb])]
    IN  IF h1[d].called THEN RunDeferred(h1, d) ELSE h1

\* Deferred.addCallback(callback)
AddCallbackOnly(heap, d, cb) == AddCallbacks(heap, d, cb, PassThru)

\* Share(runtime, field, value): the new Share is the last one of the heap
ShareWithValue(heap, value) ==
    DeferredCallback(Append(heap, NewShare), Len(heap) + 1, value).heap

\* ShareList.__init__: share.addCallbacks(self._callback_fired,
\* self._callback_fired, callbackArgs=(index, True), errbackArgs=(index, False))
RECURSIVE AttachCallbacks(_, _, _, _)
AttachCallbacks(heap, list, ids, index) ==
    IF index > Len(ids) THEN heap
    ELSE AttachCallbacks(
            AddCallbacks(heap, ids[index],
                         Fn("_callback_fired", list, index, TRUE, 0),
                         Fn("_callback_fired", list, index, FALSE, 0)),
            list, ids, index + 1)

\* ShareList(shares) with the default threshold len(shares): the new
\* ShareList is the Share after the last one of heap
NewShareList(heap, ids) ==
    AttachCallbacks(
        Append(heap, [NewShare EXCEPT !.sl = ShareListInit(Len(ids), Len(ids))]),
        Len(heap) + 1, ids, 1)

\* gather_shares(shares)
GatherShares(heap, ids) ==
    AddCallbackOnly(NewShareList(heap, ids), Len(heap) + 1,
                    Fn("filter_results", 0, 0, FALSE, 0))

\* An operand of add or sub: a Share of the heap, or a constant.
ShareOperand(d) == [share |-> TRUE, id |-> d, v |-> 0]
ConstOperand(v) == [share |-> FALSE, id |-> 0, v |-> v]

\* if not isinstance(share_a, Share): share_a = Share(self, field, share_a)
Coerce(heap, x) ==
    IF x.share THEN [heap |-> heap, id |-> x.id]
    ELSE [heap |-> ShareWithValue(heap, Val(x.v)), id |-> Len(heap) + 1]

\* Runtime.add(share_a, share_b) and Runtime.sub(share_a, share_b): f is
\* "add" or "sub"
AddSub(heap, f, a, b, m) ==
    LET ca == Coerce(heap, a)
        cb == Coerce(ca.heap, b)
        out == Len(cb.heap) + 1
    IN  [heap |-> AddCallbackOnly(GatherShares(cb.heap, <<ca.id, cb.id>>), out,
                                  Fn(f, 0, 0, FALSE, m)),
         out |-> out]

\* Share.clone()
Clone(heap, d) ==
    [heap |-> AddCallbackOnly(Append(heap, NewShare), d,
                              Fn("split_result", Len(heap) + 1, 0, FALSE, 0)),
     out |-> Len(heap) + 1]

\* an open that schedules exchange on the Share it is given
OpenShareInPlace(heap, d) ==
    [heap |-> AddCallbackOnly(heap, d, Fn("exchange", 0, 0, FALSE, 0)),
     out |-> d]

\* Runtime.open(share) at a receiver: result = share.clone();
\* self.schedule_callback(result, exchange); return result
OpenShare(heap, d) ==
    LET c == Clone(heap, d)
    IN  [heap |-> AddCallbackOnly(c.heap, c.out, Fn("exchange", 0, 0, FALSE, 0)),
         out |-> c.out]

MaxCalls == 3
ShareValues == {1, 4}
ConstValues == {0, 3, 7}

Scenario(op, a, b) == [op |-> op, modulus |-> 5, a |-> a, b |-> b]

Scenarios ==
    {Scenario(op, ShareOperand(1), ShareOperand(2)) : op \in {"add", "sub"}}
    \cup {Scenario(op, ShareOperand(1), ConstOperand(v)) :
             op \in {"add", "sub"}, v \in ConstValues}
    \cup {Scenario(op, ConstOperand(v), ShareOperand(2)) :
             op \in {"add", "sub"}, v \in ConstValues}
    \cup {Scenario(op, ShareOperand(1), ShareOperand(1)) : op \in {"clone", "open"}}

\* The Shares of the scenario that are called from outside.
Operands(sc) ==
    {x.id : x \in {y \in {sc.a, sc.b} : y.share}}

InitObj ==
    /\ sh_scen \in Scenarios
    /\ sh_heap = <<NewShare, NewShare>>
    /\ sh_out = 0
    /\ sh_log = <<>>
    /\ ObjOthersIdle

\* callback(value) or errback(failure) is called on the Share d from outside
\* (data arrives, the application resolves it); an AlreadyCalledError goes
\* to the caller.
CallShare(d, result) ==
    /\ Len(sh_log) < MaxCalls
    /\ LET r == DeferredCallback(sh_heap, d, result)
       IN  /\ sh_heap' = r.heap
           /\ sh_log' = Append(sh_log,
                  [id |-> d, arg |-> result, was_called |-> sh_heap[d].called,
                   before |-> sh_heap[d].result, after |-> r.heap[d].result,
                   raised |-> r.raised])
    /\ UNCHANGED <<sh_scen, sh_out>>
    /\ ObjFrame

ResolveShare(d, v) == CallShare(d, Val(v))

FailShare(d) == CallShare(d, Failure)

\* The application calls add, sub, clone or open on the operands.
Derive ==
    /\ sh_out = 0
    /\ LET r == CASE sh_scen.op \in {"add", "sub"} ->
                        AddSub(sh_heap, sh_scen.op, sh_scen.a, sh_scen.b,
                               sh_scen.modulus)
                  [] sh_scen.op = "clone" -> Clone(sh_heap, sh_scen.a.id)
                  [] sh_scen.op = "open" -> OpenShare(sh_heap, sh_scen.a.id)
       IN  sh_heap' = r.heap /\ sh_out' = r.out
    /\ UNCHANGED <<sh_scen, sh_log>>
    /\ ObjFrame

NextObj ==
    \/ \E d \in Operands(sh_scen), v \in ShareValues : ResolveShare(d, v)
    \/ \E d \in Operands(sh_scen) : FailShare(d)
    \/ Derive

SpecShare == InitObj /\ [][NextObj]_vars

\* C11: callback on a Share that has been called raises and leaves the
\* value the Share holds as it was.
C11_ResolvedOnce ==
    \A i \in DOMAIN sh_log :
        sh_log[i].was_called =>
            sh_log[i].raised /\ sh_log[i].after = sh_log[i].before

\* A Share holding a value was called with another value.
C11_Witness ==
    \E i \in DOMAIN sh_log :
        /\ sh_log[i].was_called /\ sh_log[i].before.k = "val"
        /\ sh_log[i].arg.k = "val" /\ sh_log[i].arg # sh_log[i].before

\* What an operand of the scenario holds: a constant holds its value from
\* the start, a Share what it was called with.
OperandCalled(x) == IF x.share THEN sh_heap[x.id].called ELSE TRUE

OperandResult(x) == IF x.share THEN sh_heap[x.id].result ELSE Val(x.v)

Derived == sh_heap[sh_out]

\* C16: the Share returned by add (sub) has been called exactly when both
\* operands have been, and when both hold values it holds their sum
\* (difference) in the field; a constant operand counts as resolved.
C16_AddSubResolves ==
    (sh_scen.op \in {"add", "sub"} /\ sh_out # 0) =>
        /\ Derived.called <=> (OperandCalled(sh_scen.a) /\ OperandCalled(sh_scen.b))
        /\ ~Derived.paused
        /\ (/\ OperandCalled(sh_scen.a) /\ OperandResult(sh_scen.a).k = "val"
            /\ OperandCalled(sh_scen.b) /\ OperandResult(sh_scen.b).k = "val")
           => Derived.result =
                 Val(IF sh_scen.op = "add"
                     THEN (OperandResult(sh_scen.a).v + OperandResult(sh_scen.b).v)
                              % sh_scen.modulus
                     ELSE (OperandResult(sh_scen.a).v - OperandResult(sh_scen.b).v)
                              % sh_scen.modulus)

\* sub of a constant above the modulus and a Share that was resolved after
\* the call of sub, with a difference that wraps around.
C16_Witness ==
    /\ sh_scen.op = "sub" /\ sh_out # 0
    /\ ~sh_scen.a.share /\ sh_scen.a.v >= sh_scen.modulus
    /\ Len(sh_log) = 1 /\ sh_log[1].id = 2 /\ sh_log[1].arg.k = "val"
    /\ Len(sh_heap) = sh_out
    /\ Derived.called /\ Derived.result.k = "val"
    /\ sh_scen.a.v - sh_log[1].arg.v > sh_scen.modulus

\* The operand of clone or open has been called with a failure.
SourceFailed ==
    /\ sh_scen.op \in {"clone", "open"}
    /\ sh_heap[sh_scen.a.id].called
    /\ IsFailure(sh_heap[sh_scen.a.id].result)

\* C17: once the Share has failed, the Share that clone or open returned
\* for it has been called with a failure too.
C17_FailurePropagates ==
    (SourceFailed /\ sh_out # 0) => Derived.called /\ IsFailure(Derived.result)

\* The Share failed after clone or open had returned.
C17_Witness ==
    /\ SourceFailed /\ sh_out # 0
    /\ Len(sh_log) = 1 /\ IsFailure(sh_log[1].arg)
    /\ Len(sh_heap) = sh_out

----------------------------------------------------------------------------
(***************************************************************************)
(* double_share_random(T, d1, d2, field) from the point where the two      *)
(* shamir_share rounds are done: every player holds its shares svec1 and   *)
(* svec2 of every player's random element, and its exchange callback runs. *)
(* The state of player i:                                                  *)
(*   svec1, svec2   its shares of the players' elements (degree d1, d2)    *)
(*   si_1, si_2     at a verifying player, the two gatherResults lists     *)
(*   verified       the outcome of verify, once it has run                 *)
(***************************************************************************)

\* shamir.recombine(shares, x): Lagrange interpolation of the pairs at x
RecombineAt(points, x, modulus) ==
    LET I == DOMAIN points
        term(i) ==
            FMul(points[i][2],
                 FProduct([j \in I \ {i} |->
                              FDiv(FSub(x, points[j][1], modulus),
                                   FSub(points[i][1], points[j][1], modulus),
                                   modulus)],
                          I \ {i}, modulus),
                 modulus)
    IN  FSum([i \in I |-> term(i)], I, modulus)

\* shamir.verify_sharing(shares, degree): the polynomial through the first
\* degree+1 pairs passes through the others
VerifySharing(points, degree, modulus) ==
    \A k \in (degree + 2)..Len(points) :
        RecombineAt(SubSeq(points, 1, degree + 1), points[k][1], modulus)
            = points[k][2]

\* double_share_random is the application's first operation; it calls
\* shamir_share twice before it schedules exchange.
ExchangePc == LeavePc(LeavePc(EnterPc(<<0>>)))

\* The players that verify: self.id > T
Verifiers(c) == {v \in Players(c) : v > c.T}

\* map(lambda (i, s): (field(i+1), s), enumerate(si))
Points(results, modulus) ==
    [k \in DOMAIN results |-> <<ToField(k, modulus), results[k].v>>]

\* double_share_random.verify(shares)
Verify(c, p) ==
    LET si_1 == Points(p.si_1.results, c.modulus)
        si_2 == Points(p.si_2.results, c.modulus)
    IN  [p EXCEPT !.verified =
            Result(/\ VerifySharing(si_1, c.d1, c.modulus)
                   /\ VerifySharing(si_2, c.d2, c.modulus)
                   /\ Recombine(SubSeq(si_1, 1, c.d1 + 1), c.modulus)
                         = Recombine(SubSeq(si_2, 1, c.d2 + 1), c.modulus))]

\* The two _expect_share calls for one peer under the same key: the
\* connection afterwards and what each of the two Deferreds got at once.
ExpectTwo(c, p, peer, pc) ==
    LET first == ExpectData(p.inc[peer], <<pc, "share">>,
                            [list |-> "si_1", index |-> peer])
        second == ExpectData(first.dict, <<pc, "share">>,
                             [list |-> "si_2", index |-> peer])
    IN  [dict |-> second.dict, fired_1 |-> first.fired, fired_2 |-> second.fired]

\* si_1 or si_2 as handed to gatherResults, which waits for all of them
Gathered(c, p, own, fired) ==
    ShareList([k \in Players(c) |->
                  IF k = p.id THEN Entry(TRUE, own)
                  ELSE IF fired[k] # <<>>
                       THEN Entry(TRUE, ToField(fired[k][1].data, c.modulus))
                       ELSE NoEntry],
              c.n)

\* double_share_random.exchange(shares)
DoubleExchange(c, p) ==
    LET pc == ExchangePc
        to == Verifiers(c) \ {p.id}
        p1 == SendShares(SendShares(p, to, pc, p.svec1), to, pc, p.svec2)
    IN  IF p.id > c.T
        THEN LET exp == [j \in Peers(c, p.id) |-> ExpectTwo(c, p1, j, pc)]
                 p2 == [p1 EXCEPT
                          !.inc = [j \in Peers(c, p.id) |-> exp[j].dict],
                          !.si_1 = Gathered(c, p, p.svec1[p.id],
                                            [j \in Peers(c, p.id) |-> exp[j].fired_1]),
                          !.si_2 = Gathered(c, p, p.svec2[p.id],
                                            [j \in Peers(c, p.id) |-> exp[j].fired_2])]
             IN  IF p2.si_1.called /\ p2.si_2.called THEN Verify(c, p2) ELSE p2
        ELSE p1

\* A share arrives for the Deferred w of a verifying player.
DoubleArrived(c, p, w, data) ==
    LET p1 == IF w.list = "si_1"
              THEN [p EXCEPT !.si_1 = CallbackFired(@, w.index, TRUE,
                                                    ToField(data, c.modulus))]
              ELSE [p EXCEPT !.si_2 = CallbackFired(@, w.index, TRUE,
                                                    ToField(data, c.modulus))]
    IN  IF p1.si_1.called /\ p1.si_2.called THEN Verify(c, p1) ELSE p1

\* ShareExchanger.stringReceived on the connection to peer
DoubleDataReceived(c, p, peer, msg) ==
    LET r == StringReceived(p.inc[peer], <<msg.pc, msg.type>>, msg.data)
        p1 == [p EXCEPT !.inc[peer] = r.dict]
    IN  IF r.fired = <<>> THEN p1
        ELSE DoubleArrived(c, p1, r.fired[1].deferred, msg.data)

\* Player i's shares are complete and its exchange runs.
DoubleStart(i) ==
    /\ ~pl[i].started
    /\ Flush(i, DoubleExchange(cfg, [pl[i] EXCEPT !.started = TRUE]), <<>>)
    /\ UNCHANGED <<cfg, secret>>
    /\ ShareFrame

\* The oldest message in flight from player j reaches player i.
DoubleDeliver(j, i) ==
    /\ net[<<j, i>>] # <<>>
    /\ Flush(i, DoubleDataReceived(cfg, pl[i], j, Head(net[<<j, i>>])), <<j, i>>)
    /\ UNCHANGED <<cfg, secret>>
    /\ ShareFrame

NextDouble ==
    \/ \E i \in Players(cfg) : DoubleStart(i)
    \/ \E ch \in Channels(cfg) : DoubleDeliver(ch[1], ch[2])

\* Three players, threshold 1, T = n - 2t = 1, so players 2 and 3 verify;
\* player j's random element is si[j], shared with the coefficients <<j>>
\* (degree t) and <<j, 1>> (degree 2t).
DoubleInputs ==
    {[n |-> 3, t |-> 1, T |-> 1, d1 |-> 1, d2 |-> 2, modulus |-> 5, si |-> si] :
        si \in {<<1, 2, 3>>, <<4, 0, 2>>}}

InitDouble ==
    /\ \E x \in DoubleInputs :
          /\ cfg = x
          /\ secret = x.si
          /\ pl = [i \in 1..x.n |->
                     [id |-> i, started |-> FALSE,
                      svec1 |-> [j \in 1..x.n |->
                                   ShamirShare(x.si[j], <<j>>, x.n, x.modulus)[i][2]],
                      svec2 |-> [j \in 1..x.n |->
                                   ShamirShare(x.si[j], <<j, 1>>, x.n, x.modulus)[i][2]],
                      inc |-> [j \in Peers(x, i) |-> <<>>],
                      out |-> [j \in Peers(x, i) |-> <<>>],
                      si_1 |-> NoList, si_2 |-> NoList, verified |-> Unset]]
          /\ net = [ch \in Channels(x) |-> <<>>]
    /\ ShareOthersIdle

SpecDouble == InitDouble /\ [][NextDouble]_vars

\* C13 as stated: a deque of a connection never holds more than one item.
C13_AtMostOne ==
    \A i \in DOMAIN pl : \A j \in DOMAIN pl[i].inc :
        \A key \in DOMAIN pl[i].inc[j] : Len(pl[i].inc[j][key]) <= 1

\* C13 as amended: the items of a deque are all payloads or all Deferreds,
\* and double_share_random puts at most two of them under one key.
C13_AtMostTwoOfAKind ==
    \A i \in DOMAIN pl : \A j \in DOMAIN pl[i].inc :
        \A key \in DOMAIN pl[i].inc[j] :
            /\ Len(pl[i].inc[j][key]) <= 2
            /\ \A k \in DOMAIN pl[i].inc[j][key] :
                  pl[i].inc[j][key][k].t = pl[i].inc[j][key][1].t

\* A verifying player holds two buffered shares of one peer under the key
\* of exchange, another one two waiting Deferreds for one peer.
C13_Witness ==
    \E i, k \in Verifiers(cfg) :
        /\ \E j \in Peers(cfg, i) :
              /\ <<ExchangePc, "share">> \in DOMAIN pl[i].inc[j]
              /\ Len(pl[i].inc[j][<<ExchangePc, "share">>]) = 2
              /\ pl[i].inc[j][<<ExchangePc, "share">>][1].t = "data"
        /\ \E j \in Peers(cfg, k) :
              /\ <<ExchangePc, "share">> \in DOMAIN pl[k].inc[j]
              /\ Len(pl[k].inc[j][<<ExchangePc, "share">>]) = 2
              /\ pl[k].inc[j][<<ExchangePc, "share">>][1].t = "deferred"

----------------------------------------------------------------------------
(***************************************************************************)
(* The preprocessing pool of one runtime.  The program counter is kept as  *)
(* in SpecPC (heap, pc, saved), so that callbacks run under their saved    *)
(* copy.  Further fields of the runtime:                                   *)
(*   T            n - 2t, the triples one generate_triples call yields     *)
(*   pool         _pool: program counter -> entry                          *)
(*   needed_data  _needed_data: (generator, args) -> program counters      *)
(*   callbacks    the saved_pc of each scheduled callback not yet run      *)
(*   pending      the batches of preprocess whose update has not run yet   *)
(*   made         ghost: the number of triples generated so far; a triple  *)
(*                is named by its number                                   *)
(***************************************************************************)

TripleKey == <<"generate_triples", <<"Zp">> >>

\* ActiveRuntime.generate_triples under increment_pc: T new triples
GenerateTriples(st) ==
    LET s1 == IncrementPcEnter(st)
        s2 == [s1 EXCEPT !.made = @ + st.T]
    IN  [st |-> IncrementPcLeave(s2, FALSE), count |-> st.T,
         triples |-> [k \in 1..st.T |-> st.made + k]]

\* The body of get_triple: generate_triples, and triples[0] of its result
GetTripleMethod(st) ==
    LET g == GenerateTriples(st)
    IN  [st |-> g.st, ret |-> g.triples[1]]

\* a wrapper that never looks into the pool
PreprocessWrapperNoPool(st, key) ==
    GetTripleMethod([st EXCEPT !.needed_data =
                        DictSet(@, key, Append(Setdefault(@, key), PcValue(st)))])

\* preprocess.preprocess_wrapper around get_triple
PreprocessWrapper(st, key) ==
    LET pc == PcValue(st)
    IN  IF pc \in DOMAIN st.pool
        THEN [st |-> st, ret |-> st.pool[pc]]
        ELSE GetTripleMethod([st EXCEPT !.needed_data =
                                 DictSet(@, key, Append(Setdefault(@, key), pc))])

\* ActiveRuntime.get_triple(field): increment_pc around preprocess_wrapper.
\* called is what the wrapper saw: the program counter, the pool, the
\* demand and the number of triples made, before and after.
GetTriple(st) ==
    LET s1 == IncrementPcEnter(st)
        w == PreprocessWrapper(s1, TripleKey)
    IN  [st |-> IncrementPcLeave(w.st, FALSE), ret |-> w.ret,
         called |-> [pc |-> PcValue(s1), pool |-> s1.pool,
                     needed_before |-> s1.needed_data,
                     needed_after |-> w.st.needed_data,
                     made_before |-> s1.made, made_after |-> w.st.made,
                     ret |-> w.ret]]

\* a preprocess that calls each generator once
GenerateItemsOnce(st, wanted, results) ==
    LET g == GenerateTriples(st)
    IN  [st |-> g.st, results |-> results \o g.triples]

\* BasicRuntime.preprocess: while items < len(program_counters):
\*     item_count, result = func(*args); items += item_count
RECURSIVE GenerateItems(_, _, _)
GenerateItems(st, wanted, results) ==
    IF Len(results) >= wanted THEN [st |-> st, results |-> results]
    ELSE LET g == GenerateTriples(st)
         IN  GenerateItems(g.st, wanted, results \o g.triples)

\* BasicRuntime.preprocess(program) for a program with the keys of
\* needed_data: the generators run now, update runs when they are done.
Preprocess(st, prog) ==
    LET s1 == IncrementPcEnter(st)
        g == IF TripleKey \in DOMAIN prog
             THEN GenerateItems(s1, Len(prog[TripleKey]), <<>>)
             ELSE [st |-> s1, results |-> <<>>]
        s2 == IF TripleKey \in DOMAIN prog
              THEN [g.st EXCEPT !.pending =
                       Append(@, [program_counters |-> prog[TripleKey],
                                  results |-> g.results])]
              ELSE g.st
    IN  IncrementPcLeave(s2, FALSE)

\* BasicRuntime.preprocess.update:
\* self._pool.update(zip(program_counters, results))
Update(st, batch) ==
    LET len == Min(Len(batch.program_counters), Len(batch.results))
        pcs == {batch.program_counters[k] : k \in 1..len}
        last(pc) == CHOOSE k \in 1..len :
                        /\ batch.program_counters[k] = pc
                        /\ \A l \in (k + 1)..len : batch.program_counters[l] # pc
    IN  [st EXCEPT !.pool = [pc \in DOMAIN st.pool \cup pcs |->
                                IF pc \in pcs THEN batch.results[last(pc)]
                                ELSE st.pool[pc]]]

MaxConsumers == 3
MaxCallbacks == 2
MaxPreprocess == 2

InitPool ==
    /\ \E T \in {1, 2} :
          pool_rt = [heap |-> << <<0>> >>, pc |-> 1, saved |-> 0, T |-> T,
                     pool |-> <<>>, needed_data |-> <<>>, callbacks |-> <<>>,
                     pending |-> <<>>, made |-> 0, preprocessed |-> 0]
    /\ pool_log = <<>>
    /\ PoolOthersIdle

\* The application calls get_triple.
PoolGetTriple ==
    /\ Len(pool_log) < MaxConsumers
    /\ LET r == GetTriple(pool_rt)
       IN  pool_rt' = r.st /\ pool_log' = Append(pool_log, r.called)
    /\ PoolFrame

\* The application schedules a callback that calls get_triple:
\* schedule_callback(deferred, func)
PoolSchedule ==
    /\ Len(pool_rt.heap) - 1 < MaxCallbacks
    /\ LET s1 == SavePc(pool_rt)
       IN  pool_rt' = [s1 EXCEPT !.callbacks = Append(@, s1.saved)]
    /\ UNCHANGED pool_log
    /\ PoolFrame

\* The Deferred of the k-th waiting callback fires: callback_wrapper runs
\* get_triple under the saved program counter.
PoolFire(k) ==
    /\ Len(pool_log) < MaxConsumers
    /\ LET current_pc == pool_rt.pc
           s1 == EnterCallback(pool_rt, pool_rt.callbacks[k])
           r == GetTriple(s1)
           s2 == LeaveCallback(r.st, current_pc, FALSE)
       IN  /\ pool_rt' = [s2 EXCEPT !.callbacks =
                             SubSeq(@, 1, k - 1) \o SubSeq(@, k + 1, Len(@))]
           /\ pool_log' = Append(pool_log, r.called)
    /\ PoolFrame

\* The application takes the demand recorded so far, resets it, and calls
\* preprocess with it, as the benchmark does.
PoolPreprocess ==
    /\ pool_rt.preprocessed < MaxPreprocess
    /\ pool_rt.needed_data # <<>>
    /\ pool_rt' = Preprocess([pool_rt EXCEPT !.needed_data = <<>>,
                                             !.preprocessed = @ + 1],
                             pool_rt.needed_data)
    /\ UNCHANGED pool_log
    /\ PoolFrame

\* The generators of the oldest batch are done and update runs.
PoolUpdate ==
    /\ pool_rt.pending # <<>>
    /\ pool_rt' = [Update(pool_rt, pool_rt.pending[1]) EXCEPT
                      !.pending = SubSeq(@, 2, Len(@))]
    /\ UNCHANGED pool_log
    /\ PoolFrame

NextPool ==
    \/ PoolGetTriple
    \/ PoolSchedule
    \/ \E k \in DOMAIN pool_rt.callbacks : PoolFire(k)
    \/ PoolPreprocess
    \/ PoolUpdate

SpecPool == InitPool /\ [][NextPool]_vars

\* The call found an entry under its program counter.
FromPool(call) == call.pc \in DOMAIN call.pool

\* C18: a call of get_triple that finds a pool entry under the current
\* program counter returns it, generates nothing and leaves the demand as
\* it is; a call that finds none appends its program counter to the demand
\* of (generate_triples, args) and returns the first triple generated for it.
C18_PoolOrDemand ==
    \A i \in DOMAIN pool_log :
        LET call == pool_log[i]
        IN  IF FromPool(call)
            THEN /\ call.ret = call.pool[call.pc]
                 /\ call.made_after = call.made_before
                 /\ call.needed_after = call.needed_before
            ELSE /\ TripleKey \in DOMAIN call.needed_after
                 /\ call.needed_after[TripleKey] =
                       (IF TripleKey \in DOMAIN call.needed_before
                        THEN call.needed_before[TripleKey] ELSE <<>>)
                          \o <<call.pc>>
                 /\ DOMAIN call.needed_after = DOMAIN call.needed_before \cup {TripleKey}
                 /\ call.made_after > call.made_before
                 /\ call.ret = call.made_before + 1

\* A call recorded demand, preprocess filled the pool, and later calls were
\* served from the pool and by generation on demand.
C18_Witness ==
    \E i, j \in DOMAIN pool_log :
        /\ i < j /\ ~FromPool(pool_log[1])
        /\ FromPool(pool_log[i]) /\ ~FromPool(pool_log[j])
        /\ pool_log[j].pool # <<>>

\* C19: no two calls obtain the same entry from the pool.
C19_EntryHandedOnce ==
    \A i, j \in DOMAIN pool_log :
        (i < j /\ FromPool(pool_log[i]) /\ FromPool(pool_log[j]))
            => pool_log[i].ret # pool_log[j].ret

\* Two calls were served from the pool.
C19_Witness ==
    \E i, j \in DOMAIN pool_log :
        i < j /\ FromPool(pool_log[i]) /\ FromPool(pool_log[j])

----------------------------------------------------------------------------
(***************************************************************************)
(* Players of the active runtime that run ActiveRuntime.mul on a triple    *)
(* and open the product, or make_triple of generate_triples and open c.    *)
(* Every open of the run has a name; the state of player i:                *)
(*   inp      the values of the Shares it starts with                      *)
(*   lists    [name -> the ShareList of that open's _recombine]            *)
(*   vals     [name -> the value that open resolved to]                    *)
(*   res      [k -> its share of the k-th result: the product, or c]       *)
(***************************************************************************)

\* hyper(n, field)[i][j] of viff.matrix, rows and columns counted from 1
Hyper(n, i, j, modulus) ==
    FProduct([k \in (1..n) \ {j} |->
                 FDiv(ToField(n + i - k, modulus), ToField(j - k, modulus), modulus)],
             (1..n) \ {j}, modulus)

\* Row i of self._hyper * svec
HyperRow(n, i, svec, modulus) ==
    FSum([j \in 1..n |-> FMul(Hyper(n, i, j, modulus), svec[j], modulus)],
         1..n, modulus)

\* The results a run yields: one product, or T triples.
Results(c) == IF c.prog = "amul" THEN {1} ELSE 1..c.T

\* The opens of a run: d and e of mul and the open of its result, or the
\* d of each triple and the open of its c.
OpNames(c) ==
    IF c.prog = "amul" THEN {<<"d", 1>>, <<"e", 1>>, <<"z", 1>>}
    ELSE {<<"d", k>> : k \in 1..c.T} \cup {<<"z", k>> : k \in 1..c.T}

RECURSIVE AfterCalls(_, _)
\* The program counter after k counted calls made at pc
AfterCalls(pc, k) == IF k = 0 THEN pc ELSE AfterCalls(LeavePc(pc), k - 1)

\* The program counter exchange runs under.  mul is the first operation:
\* get_triple, then the opens of d and e inside finish_mul; the product is
\* opened by the next operation.  generate_triples is the first operation:
\* three sharings, then the T opens of make_triple; the k-th c is opened by
\* the k-th operation after it.
OpPc(c, name) ==
    CASE name[1] = "d" /\ c.prog = "amul" -> EnterPc(AfterCalls(EnterPc(<<0>>), 1))
      [] name[1] = "e" -> EnterPc(AfterCalls(EnterPc(<<0>>), 2))
      [] name[1] = "d" /\ c.prog = "triple" ->
            EnterPc(AfterCalls(EnterPc(<<0>>), 3 + name[2] - 1))
      [] name[1] = "z" -> EnterPc(AfterCalls(<<0>>, name[2]))

\* an open that always recombines with threshold t
OpThresholdLow(c, name) ==
    c.t

\* open(share) resp. open(share, threshold=2*t)
OpThreshold(c, name) ==
    IF c.prog = "triple" /\ name[1] = "d" THEN 2 * c.t ELSE c.t

\* a mul that adds d*e + c only
FinishMulShort(d, e, a, b, triple_c, modulus) ==
    FAdd(FMul(d, e, modulus), triple_c, modulus)

\* finish_mul: lambda (d, e): d*e + d*b + e*a + c
FinishMul(d, e, a, b, triple_c, modulus) ==
    FAdd(FAdd(FAdd(FMul(d, e, modulus), FMul(d, b, modulus), modulus),
              FMul(e, a, modulus), modulus),
         triple_c, modulus)

\* Runtime.open.exchange(share) for the open called name, with the
\* _recombine(deferreds, threshold) it ends with
Exchange(c, p, name, share) ==
    LET pc == OpPc(c, name)
        p1 == SendShares(p, Peers(c, p.id), pc, [j \in Peers(c, p.id) |-> share])
        exp == [j \in Peers(c, p.id) |->
                   ExpectData(p1.inc[j], <<pc, "share">>, [list |-> name, index |-> j])]
        sl == ShareList(GatheredShares(c, p1, exp, share), OpThreshold(c, name) + 1)
        p2 == [p1 EXCEPT !.inc = [j \in Peers(c, p.id) |-> exp[j].dict],
                         !.lists[name] = sl]
    IN  IF sl.called
        THEN [p2 EXCEPT !.vals[name] =
                 Result(RecombineResult(sl, OpThreshold(c, name), c.modulus))]
        ELSE p2

\* The callbacks that wait for opened values: in mul the lambda on
\* gather_shares([d, e]), whose result the application opens; in make_triple
\* c_t[k] = r_t[k] + d[k], which the application opens.
RECURSIVE Continue(_, _, _)
Continue(c, p, k) ==
    IF k > Cardinality(Results(c)) THEN p
    ELSE IF p.res[k].set THEN Continue(c, p, k + 1)
    ELSE IF c.prog = "amul"
    THEN IF p.vals[<<"d", 1>>].set /\ p.vals[<<"e", 1>>].set
         THEN LET z == FinishMul(p.vals[<<"d", 1>>].v, p.vals[<<"e", 1>>].v,
                                 p.inp.a, p.inp.b, p.inp.c, c.modulus)
              IN  Exchange(c, [p EXCEPT !.res[1] = Result(z)], <<"z", 1>>, z)
         ELSE p
    ELSE IF p.vals[<<"d", k>>].set
         THEN LET c_t == FAdd(p.inp.r_t[k], p.vals[<<"d", k>>].v, c.modulus)
              IN  Continue(c, Exchange(c, [p EXCEPT !.res[k] = Result(c_t)],
                                       <<"z", k>>, c_t),
                           k + 1)
         ELSE Continue(c, p, k + 1)

\* finish_mul(triple): d = self.open(share_x - a); e = self.open(share_y - b)
StartMul(c, p) ==
    Continue(c, Exchange(c, Exchange(c, p, <<"d", 1>>,
                                     FSub(p.inp.x, p.inp.a, c.modulus)),
                         <<"e", 1>>, FSub(p.inp.y, p.inp.b, c.modulus)),
             1)

\* make_triple(shares): c_2t[k] = a_t[k] * b_t[k]; d_2t[k] = c_2t[k] - r_2t[k];
\* d[k] = self.open(d_2t[k], threshold=2*t), for k = 1..T in this order
RECURSIVE OpenMasked(_, _, _)
OpenMasked(c, p, k) ==
    IF k > c.T THEN p
    ELSE OpenMasked(c,
             Exchange(c, p, <<"d", k>>,
                      FSub(FMul(p.inp.a_t[k], p.inp.b_t[k], c.modulus),
                           p.inp.r_2t[k], c.modulus)),
             k + 1)

MakeTriple(c, p) == Continue(c, OpenMasked(c, p, 1), 1)

\* A share expected from peer arrives for the Deferred w.
ActiveArrived(c, p, w, peer, data) ==
    LET name == w.list
        sl == CallbackFired(p.lists[name], w.index, TRUE,
                            <<ToField(peer, c.modulus), ToField(data, c.modulus)>>)
        p1 == [p EXCEPT !.lists[name] = sl]
    IN  IF sl.called /\ ~p.lists[name].called
        THEN Continue(c, [p1 EXCEPT !.vals[name] =
                             Result(RecombineResult(sl, OpThreshold(c, name),
                                                    c.modulus))],
                      1)
        ELSE p1

\* ShareExchanger.stringReceived on the connection to peer
ActiveDataReceived(c, p, peer, msg) ==
    LET r == StringReceived(p.inc[peer], <<msg.pc, msg.type>>, msg.data)
        p1 == [p EXCEPT !.inc[peer] = r.dict]
    IN  IF r.fired = <<>> THEN p1
        ELSE ActiveArrived(c, p1, r.fired[1].deferred, peer, msg.data)

InitActivePlayer(c, i, inp) ==
    [id |-> i, started |-> FALSE, inp |-> inp,
     inc |-> [j \in Peers(c, i) |-> <<>>],
     out |-> [j \in Peers(c, i) |-> <<>>],
     lists |-> [name \in OpNames(c) |-> NoList],
     vals |-> [name \in OpNames(c) |-> Unset],
     res |-> [k \in Results(c) |-> Unset]]

\* Player i's application runs.
ActiveStart(i) ==
    /\ ~pl[i].started
    /\ LET me == [pl[i] EXCEPT !.started = TRUE]
       IN  Flush(i, IF cfg.prog = "amul" THEN StartMul(cfg, me)
                    ELSE MakeTriple(cfg, me),
                 <<>>)
    /\ UNCHANGED <<cfg, secret>>
    /\ ShareFrame

\* The oldest message in flight from player j reaches player i.
ActiveDeliver(j, i) ==
    /\ i \notin cfg.stalled
    /\ net[<<j, i>>] # <<>>
    /\ Flush(i, ActiveDataReceived(cfg, pl[i], j, Head(net[<<j, i>>])), <<j, i>>)
    /\ UNCHANGED <<cfg, secret>>
    /\ ShareFrame

NextActive ==
    \/ \E i \in Players(cfg) : ActiveStart(i)
    \/ \E ch \in Channels(cfg) : ActiveDeliver(ch[1], ch[2])

\* Player i's share of the sharing of value with the coefficients coefs
ShareOf(value, coefs, i, n, modulus) == ShamirShare(value, coefs, n, modulus)[i][2]

\* mul(share_x, share_y) with the triple (a, b, c): the secrets x, y, a, b,
\* c and the first of the coefficients of their degree-t sharings; the last
\* triple has c # a*b.
ActiveMulInputs ==
    {[prog |-> "amul", n |-> 3, t |-> 1, T |-> 1, modulus |-> 5, stalled |-> {},
      x |-> v[1], y |-> v[2], a |-> v[3], b |-> v[4], c |-> v[5], k |-> v[6]] :
        v \in {<<2, 3, 1, 4, 4, 1>>, <<4, 4, 3, 0, 0, 2>>, <<0, 1, 2, 2, 4, 3>>,
               <<3, 2, 4, 4, 1, 4>>, <<1, 1, 2, 3, 0, 1>>}}

InitActiveMul ==
    /\ \E x \in ActiveMulInputs :
          /\ cfg = [prog |-> x.prog, n |-> x.n, t |-> x.t, T |-> x.T,
                    modulus |-> x.modulus, stalled |-> x.stalled]
          /\ secret = [x |-> x.x, y |-> x.y, a |-> x.a, b |-> x.b, c |-> x.c]
          /\ pl = [i \in 1..x.n |->
                     InitActivePlayer(x, i,
                        [x |-> ShareOf(x.x, <<x.k>>, i, x.n, x.modulus),
                         y |-> ShareOf(x.y, <<FAdd(x.k, 1, x.modulus)>>, i, x.n, x.modulus),
                         a |-> ShareOf(x.a, <<FAdd(x.k, 2, x.modulus)>>, i, x.n, x.modulus),
                         b |-> ShareOf(x.b, <<FAdd(x.k, 3, x.modulus)>>, i, x.n, x.modulus),
                         c |-> ShareOf(x.c, <<FAdd(x.k, 4, x.modulus)>>, i, x.n, x.modulus)])]
          /\ net = [ch \in Channels(x) |-> <<>>]
    /\ ShareOthersIdle

SpecActiveMul == InitActiveMul /\ [][NextActive]_vars

\* C15: when the triple has c = a*b, the value every player opens from the
\* Share that mul returned is x*y, and that Share is d*e + d*b + e*a + c for
\* the opened d = x - a and e = y - b.
C15_ActiveMulOpensProduct ==
    secret.c = FMul(secret.a, secret.b, cfg.modulus) =>
        \A i \in DOMAIN pl :
            /\ pl[i].vals[<<"d", 1>>].set =>
                  pl[i].vals[<<"d", 1>>].v = FSub(secret.x, secret.a, cfg.modulus)
            /\ pl[i].vals[<<"e", 1>>].set =>
                  pl[i].vals[<<"e", 1>>].v = FSub(secret.y, secret.b, cfg.modulus)
            /\ pl[i].res[1].set =>
                  pl[i].res[1].v =
                     ((secret.x - secret.a) * (secret.y - secret.b)
                      + (secret.x - secret.a) * pl[i].inp.b
                      + (secret.y - secret.b) * pl[i].inp.a
                      + pl[i].inp.c) % cfg.modulus
            /\ pl[i].vals[<<"z", 1>>].set =>
                  pl[i].vals[<<"z", 1>>].v = FMul(secret.x, secret.y, cfg.modulus)

\* All players have opened a product that is not zero, with d and e not
\* zero, and one of them did so while a peer's share of d had not arrived.
C15_Witness ==
    /\ secret.c = FMul(secret.a, secret.b, cfg.modulus)
    /\ FMul(secret.x, secret.y, cfg.modulus) # 0
    /\ secret.x # secret.a /\ secret.y # secret.b
    /\ \A i \in DOMAIN pl : pl[i].vals[<<"z", 1>>].set
    /\ \E i, k \in DOMAIN pl : ~pl[i].lists[<<"d", 1>>].results[k].set

(***************************************************************************)
(* generate_triples from the point where single_share_random (twice) and   *)
(* double_share_random have resolved: every player holds a_t, b_t, r_t and *)
(* r_2t, the first T rows of the hyper-invertible matrix applied to its    *)
(* shares of the players' random elements.                                 *)
(***************************************************************************)

\* rvec[:T] for the sharings of the elements s with coefficients coefs[j]
RandomShares(x, s, coefs, i) ==
    [k \in 1..x.T |->
        HyperRow(x.n, k, [j \in 1..x.n |-> ShareOf(s[j], coefs[j], i, x.n, x.modulus)],
                 x.modulus)]

\* Three players (modulus 7) and four players (modulus 11), threshold 1,
\* T = n - 2t triples; player j contributes the random elements sa[j],
\* sb[j] and sr[j].  With four players the run is followed while nothing
\* has reached players 3 and 4 yet.
TripleInputs ==
    {[prog |-> "triple", n |-> 3, t |-> 1, T |-> 1, modulus |-> 7, stalled |-> {},
      sa |-> v[1], sb |-> v[2], sr |-> v[3]] :
        v \in {<< <<1, 2, 3>>, <<4, 0, 6>>, <<5, 5, 1>> >>,
               << <<3, 0, 2>>, <<2, 2, 1>>, <<0, 6, 4>> >>}}
    \cup {[prog |-> "triple", n |-> 4, t |-> 1, T |-> 2, modulus |-> 11,
           stalled |-> {3, 4},
           sa |-> <<2, 7, 3, 10>>, sb |-> <<4, 1, 9, 2>>, sr |-> <<5, 8, 1, 6>>]}

InitTriple ==
    /\ \E x \in TripleInputs :
          /\ cfg = [prog |-> x.prog, n |-> x.n, t |-> x.t, T |-> x.T,
                    modulus |-> x.modulus, stalled |-> x.stalled]
          /\ secret = [sa |-> x.sa, sb |-> x.sb, sr |-> x.sr]
          /\ pl = [i \in 1..x.n |->
                     InitActivePlayer(x, i,
                        [a_t |-> RandomShares(x, x.sa, [j \in 1..x.n |-> <<j>>], i),
                         b_t |-> RandomShares(x, x.sb, [j \in 1..x.n |-> <<j + 1>>], i),
                         r_t |-> RandomShares(x, x.sr, [j \in 1..x.n |-> <<j + 2>>], i),
                         r_2t |-> RandomShares(x, x.sr, [j \in 1..x.n |-> <<j + 3, j * j>>], i)])]
          /\ net = [ch \in Channels(x) |-> <<>>]
    /\ ShareOthersIdle

SpecTriple == InitTriple /\ [][NextActive]_vars

\* What opening the players' Shares a_t[k] (b_t[k]) gives: the
\* interpolation of the shares of the players in S
OpenedBy(S, shares, k) ==
    LET order == CHOOSE f \in [1..Cardinality(S) -> S] :
                    \A u, w \in 1..Cardinality(S) : u < w => f[u] < f[w]
    IN  Recombine([u \in 1..Cardinality(S) |->
                      <<ToField(order[u], cfg.modulus), shares[order[u]][k]>>],
                  cfg.modulus)

\* C20: the value a player opens from c of the k-th triple is the product
\* of the values that a and b of that triple open to.
C20_TripleIsProduct ==
    \A i \in DOMAIN pl : \A k \in Results(cfg) :
        pl[i].vals[<<"z", k>>].set =>
            \A S \in {1..(cfg.t + 1), (cfg.n - cfg.t)..cfg.n} :
                pl[i].vals[<<"z", k>>].v =
                    FMul(OpenedBy(S, [j \in DOMAIN pl |-> pl[j].inp.a_t], k),
                         OpenedBy(S, [j \in DOMAIN pl |-> pl[j].inp.b_t], k),
                         cfg.modulus)

\* With four players, two players have opened c of both triples, none of
\* them zero, one of them with the d shares of only 2t+1 players.
C20_Witness ==
    /\ cfg.n = 4
    /\ \E i, j \in DOMAIN pl :
          /\ i # j
          /\ \A k \in Results(cfg) :
                /\ pl[i].vals[<<"z", k>>].set /\ pl[i].vals[<<"z", k>>].v # 0
                /\ pl[j].vals[<<"z", k>>].set
          /\ \E q \in DOMAIN pl : ~pl[i].lists[<<"d", 1>>].results[q].set

----------------------------------------------------------------------------
(***************************************************************************)
(* One batch of generate_triples in which a sharing can be faulty: the     *)
(* exchange and verify steps of single_share_random or double_share_random *)
(* at every player, and the Deferred generate_triples returns.  The two    *)
(* other sharings of the batch are taken to resolve without a failure.     *)
(*   result   what the player's single/double_share_random resolved to:    *)
(*            TRUE for the first T shares, FALSE for a failure             *)
(*   triples  what the player's generate_triples resolved to               *)
(***************************************************************************)

\* single_share_random is the first operation; it calls shamir_share once
\* before it schedules exchange.
SinglePc == LeavePc(EnterPc(<<0>>))

\* single_share_random.verify(shares)
SingleVerify(c, p) ==
    [p EXCEPT !.verified =
        Result(VerifySharing(Points(p.si_1.results, c.modulus), c.d1, c.modulus))]

\* single_share_random.exchange(svec)
SingleExchange(c, p) ==
    LET pc == SinglePc
        to == Verifiers(c) \ {p.id}
        p1 == SendShares(p, to, pc, p.svec1)
    IN  IF p.id > c.T
        THEN LET exp == ExpectShares(c, p1, pc, "si_1")
                 p2 == [p1 EXCEPT
                          !.inc = [j \in Peers(c, p.id) |-> exp[j].dict],
                          !.si_1 = Gathered(c, p, p.svec1[p.id],
                                            [j \in Peers(c, p.id) |-> exp[j].fired])]
             IN  IF p2.si_1.called THEN SingleVerify(c, p2) ELSE p2
        ELSE p1

\* The Deferred single_share_random / double_share_random returned: a player
\* that does not verify returns rvec[:T] from exchange; a verifying player
\* returns the gatherResults Deferred, which verify resolves or fails.
ShareRandomResult(c, p) ==
    IF ~p.started THEN Unset
    ELSE IF p.id > c.T THEN p.verified
    ELSE Result(TRUE)

\* generate_triples: gatherResults([single_a, single_b, double_c]) fails as
\* soon as one of them fails, and make_triple runs once all have succeeded.
GatherAndMakeTriple(r) ==
    IF ~r.set THEN Unset
    ELSE IF r.v THEN Result("triples") ELSE Result("failure")

\* The player after a step of the batch, with both Deferreds brought up to date
Settle(c, p) ==
    LET r == ShareRandomResult(c, p)
    IN  [p EXCEPT !.result = r, !.triples = GatherAndMakeTriple(r)]

\* A share arrives for the Deferred w of a verifying player.
BatchArrived(c, p, w, data) ==
    IF c.kind = "single"
    THEN LET p1 == [p EXCEPT !.si_1 = CallbackFired(@, w.index, TRUE,
                                                    ToField(data, c.modulus))]
         IN  IF p1.si_1.called THEN SingleVerify(c, p1) ELSE p1
    ELSE DoubleArrived(c, p, w, data)

\* ShareExchanger.stringReceived on the connection to peer
BatchDataReceived(c, p, peer, msg) ==
    LET r == StringReceived(p.inc[peer], <<msg.pc, msg.type>>, msg.data)
        p1 == [p EXCEPT !.inc[peer] = r.dict]
    IN  IF r.fired = <<>> THEN p1
        ELSE BatchArrived(c, p1, r.fired[1].deferred, msg.data)

\* Player i's shares are complete and its exchange runs.
BatchStart(i) ==
    /\ ~pl[i].started
    /\ LET me == [pl[i] EXCEPT !.started = TRUE]
       IN  Flush(i, Settle(cfg, IF cfg.kind = "single" THEN SingleExchange(cfg, me)
                                ELSE DoubleExchange(cfg, me)),
                 <<>>)
    /\ UNCHANGED <<cfg, secret>>
    /\ ShareFrame

\* The oldest message in flight from player j reaches player i.
BatchDeliver(j, i) ==
    /\ net[<<j, i>>] # <<>>
    /\ Flush(i, Settle(cfg, BatchDataReceived(cfg, pl[i], j, Head(net[<<j, i>>]))),
             <<j, i>>)
    /\ UNCHANGED <<cfg, secret>>
    /\ ShareFrame

NextBatch ==
    \/ \E i \in Players(cfg) : BatchStart(i)
    \/ \E ch \in Channels(cfg) : BatchDeliver(ch[1], ch[2])

\* Three players, threshold 1, T = 1: players 2 and 3 verify.  fault names
\* what is wrong with the sharing that player 2 verifies: nothing; "degree":
\* the share player 1 holds of it is off the degree-d1 polynomial; "secret":
\* its degree-d2 sharing shares another element.
BatchInputs ==
    {[kind |-> k[1], fault |-> k[2], n |-> 3, t |-> 1, T |-> 1, d1 |-> 1, d2 |-> 2,
      modulus |-> 5, si |-> si] :
        k \in {<<"single", "none">>, <<"single", "degree">>, <<"double", "none">>,
               <<"double", "degree">>, <<"double", "secret">>},
        si \in {<<1, 2, 3>>, <<4, 0, 2>>}}

\* Player i's share of the degree-d1 sharing of inputter j's element
Dealt1(x, j, i) ==
    LET s == ShamirShare(x.si[j], <<j>>, x.n, x.modulus)[i][2]
    IN  IF x.fault = "degree" /\ j = 2 /\ i = 1 THEN FAdd(s, 1, x.modulus) ELSE s

\* Player i's share of the degree-d2 sharing of inputter j's element
Dealt2(x, j, i) ==
    LET v == IF x.fault = "secret" /\ j = 2 THEN FAdd(x.si[j], 1, x.modulus)
             ELSE x.si[j]
    IN  ShamirShare(v, <<j, 1>>, x.n, x.modulus)[i][2]

InitBatch ==
    /\ \E x \in BatchInputs :
          /\ cfg = x
          /\ secret = x.si
          /\ pl = [i \in 1..x.n |->
                     [id |-> i, started |-> FALSE,
                      svec1 |-> [j \in 1..x.n |-> Dealt1(x, j, i)],
                      svec2 |-> [j \in 1..x.n |-> Dealt2(x, j, i)],
                      inc |-> [j \in Peers(x, i) |-> <<>>],
                      out |-> [j \in Peers(x, i) |-> <<>>],
                      si_1 |-> NoList, si_2 |-> NoList, verified |-> Unset,
                      result |-> Unset, triples |-> Unset]]
          /\ net = [ch \in Channels(x) |-> <<>>]
    /\ ShareOthersIdle

SpecBatch == InitBatch /\ [][NextBatch]_vars

\* A player's check of the batch has failed.
CheckFailed(i) == pl[i].verified.set /\ ~pl[i].verified.v

\* C21: once the degree check or the equal-secret check of a sharing has
\* failed at some player, no player's generate_triples has resolved to
\* triples of that batch.
C21_BatchFailsEntirely ==
    (\E i \in DOMAIN pl : CheckFailed(i)) =>
        \A j \in DOMAIN pl : ~(pl[j].triples.set /\ pl[j].triples.v = "triples")

\* The check of a double sharing has failed at a verifying player whose own
\* generate_triples failed, while another verifying player's check passed.
C21_Witness ==
    /\ cfg.kind = "double"
    /\ \E i, k \in Verifiers(cfg) :
          /\ CheckFailed(i)
          /\ pl[i].triples.set /\ pl[i].triples.v = "failure"
          /\ pl[k].verified.set /\ pl[k].verified.v

----------------------------------------------------------------------------
(***************************************************************************)
(* BasicRuntime.shutdown at every player: synchronize, close_connections,  *)
(* stop_reactor.  The state of player i:                                   *)
(*   sync     the gather_shares of synchronize                             *)
(*   got      the peers whose synchronization message has been received    *)
(*   port     "listening", "stopping" after stopListening, "stopped"       *)
(*   lose     the peers whose connection it has called loseConnection on   *)
(*   lost     the peers whose lost_connection Deferred has fired           *)
(*   reactor  "running" or "stopped"                                       *)
(* A connection that is closed carries a "fin" after the data sent on it.  *)
(***************************************************************************)

\* synchronize is the application's first counted operation.
SyncPc == EnterPc(<<0>>)

Fin == [pc |-> <<>>, type |-> "fin", data |-> 0]

\* a gather_shares that fires on the first share of a peer
SyncSharesFirst(c, p, fired) ==
    ShareList([k \in Players(c) |->
                  IF k = p.id THEN Entry(TRUE, 0)
                  ELSE IF fired[k] # <<>> THEN Entry(TRUE, fired[k][1].data)
                       ELSE NoEntry],
              Min(2, c.n))

\* synchronize: shares = [self._exchange_shares(player, GF256(0)) ...];
\* gather_shares(shares), which waits for all of them
SyncShares(c, p, fired) ==
    ShareList([k \in Players(c) |->
                  IF k = p.id THEN Entry(TRUE, 0)
                  ELSE IF fired[k] # <<>> THEN Entry(TRUE, fired[k][1].data)
                       ELSE NoEntry],
              c.n)

\* DeferredList(results): the port has stopped listening and every
\* protocol's lost_connection has fired
ResultsFired(c, p) ==
    p.port = "stopped" /\ p.lost = Peers(c, p.id)

\* shutdown.close_connections: stopListening, then loseConnection on every
\* protocol; a connection the peer has closed already sends nothing.
CloseConnections(c, p) ==
    [p EXCEPT !.port = "stopping",
              !.lose = Peers(c, p.id),
              !.out = [j \in DOMAIN @ |->
                          IF j \in p.lost THEN @[j] ELSE Append(@[j], Fin)]]

\* shutdown.stop_reactor, once the DeferredList of close_connections fired
StopReactor(c, p) ==
    IF p.lose # {} /\ ResultsFired(c, p) THEN [p EXCEPT !.reactor = "stopped"]
    ELSE p

\* shutdown(): sync = self.synchronize(), with close_connections run at
\* once if every peer's message was buffered already
Shutdown(c, p) ==
    LET exp == ExpectShares(c, p, SyncPc, "sync")
        p1 == SendShares([p EXCEPT !.inc = [j \in Peers(c, p.id) |-> exp[j].dict]],
                         Peers(c, p.id), SyncPc, [j \in Peers(c, p.id) |-> 0])
        p2 == [p1 EXCEPT !.sync = SyncShares(c, p, [j \in Peers(c, p.id) |->
                                                       exp[j].fired])]
    IN  IF p2.sync.called THEN CloseConnections(c, p2) ELSE p2

\* ShareExchanger.stringReceived on the connection to peer during shutdown
SyncDataReceived(c, p, peer, msg) ==
    LET r == StringReceived(p.inc[peer], <<msg.pc, msg.type>>, msg.data)
        p1 == [p EXCEPT !.inc[peer] = r.dict, !.got = @ \cup {peer}]
    IN  IF r.fired = <<>> THEN p1
        ELSE LET sl == CallbackFired(p1.sync, r.fired[1].deferred.index, TRUE, msg.data)
                 p2 == [p1 EXCEPT !.sync = sl]
             IN  IF sl.called /\ ~p1.sync.called THEN CloseConnections(c, p2)
                 ELSE p2

\* ShareExchanger.connectionLost: lost_connection.callback(self)
ConnectionLost(c, p, peer) ==
    StopReactor(c, [p EXCEPT !.lost = @ \cup {peer}])

\* The application of player i calls shutdown.
ShutdownCall(i) ==
    /\ ~pl[i].started
    /\ Flush(i, Shutdown(cfg, [pl[i] EXCEPT !.started = TRUE]), <<>>)
    /\ UNCHANGED <<cfg, secret>>
    /\ ShareFrame

\* What player j sent to player i arrives: data, or the end of the
\* connection; data for a connection that is lost already is dropped.
ShutdownDeliver(j, i) ==
    /\ pl[i].reactor = "running"
    /\ net[<<j, i>>] # <<>>
    /\ LET msg == Head(net[<<j, i>>])
       IN  Flush(i, IF j \in pl[i].lost THEN pl[i]
                    ELSE IF msg.type = "fin" THEN ConnectionLost(cfg, pl[i], j)
                    ELSE SyncDataReceived(cfg, pl[i], j, msg),
                 <<j, i>>)
    /\ UNCHANGED <<cfg, secret>>
    /\ ShareFrame

\* The transport of player i's connection to j, which it asked to close,
\* reports the connection lost.
LocalLost(i, j) ==
    /\ pl[i].reactor = "running"
    /\ j \in pl[i].lose \ pl[i].lost
    /\ Flush(i, ConnectionLost(cfg, pl[i], j), <<>>)
    /\ UNCHANGED <<cfg, secret>>
    /\ ShareFrame

\* The Deferred of port.stopListening fires.
PortStopped(i) ==
    /\ pl[i].reactor = "running"
    /\ pl[i].port = "stopping"
    /\ Flush(i, StopReactor(cfg, [pl[i] EXCEPT !.port = "stopped"]), <<>>)
    /\ UNCHANGED <<cfg, secret>>
    /\ ShareFrame

NextShutdown ==
    \/ \E i \in Players(cfg) : ShutdownCall(i)
    \/ \E ch \in Channels(cfg) : ShutdownDeliver(ch[1], ch[2])
    \/ \E ch \in Channels(cfg) : LocalLost(ch[1], ch[2])
    \/ \E i \in Players(cfg) : PortStopped(i)

InitShutdown ==
    /\ \E n \in {2, 3} :
          /\ cfg = [n |-> n]
          /\ pl = [i \in 1..n |->
                     [id |-> i, started |-> FALSE,
                      inc |-> [j \in Peers(cfg, i) |-> <<>>],
                      out |-> [j \in Peers(cfg, i) |-> <<>>],
                      sync |-> NoList, got |-> {}, port |-> "listening",
                      lose |-> {}, lost |-> {}, reactor |-> "running"]]
          /\ net = [ch \in Channels(cfg) |-> <<>>]
    /\ secret = <<>>
    /\ ShareOthersIdle

SpecShutdown == InitShutdown /\ [][NextShutdown]_vars

\* C22: a player that has asked a connection to close has received the
\* synchronization message of every other player, and a player whose
\* reactor has stopped has a stopped port and every connection lost.
C22_ShutdownOrder ==
    \A i \in DOMAIN pl :
        /\ pl[i].lose # {} => pl[i].got = Peers(cfg, i)
        /\ pl[i].reactor = "stopped" =>
              pl[i].port = "stopped" /\ pl[i].lost = Peers(cfg, i)

\* With three players, one has stopped its reactor while another player
\* has not asked any connection to close yet.
C22_Witness ==
    /\ cfg.n = 3
    /\ \E i, k \in DOMAIN pl :
          /\ pl[i].reactor = "stopped"
          /\ pl[k].lose = {}

----------------------------------------------------------------------------
(***************************************************************************)
(* create_runtime at every player: the ShareExchangerFactory, the          *)
(* connections to the players with a higher id, and the identification of  *)
(* the peer on each connection.  The state of player i:                    *)
(*   needed_protocols  the factory's counter                               *)
(*   protocols         runtime.protocols: the peers it has a protocol for  *)
(*   conn              [peer -> "none" or "made": connectionMade has run]  *)
(*   peer_id           [peer -> the peer_id of that protocol, 0 for None]  *)
(*   ready             how often protocols_ready.callback has been called  *)
(*   ready_with        runtime.protocols at the first of these calls       *)
(***************************************************************************)

RECURSIVE Str(_)
\* str(id): the decimal digits of a positive integer
Str(k) == IF k < 10 THEN <<k>> ELSE Append(Str(k \div 10), k % 10)

RECURSIVE ParseInt(_)
\* int(string)
ParseInt(digits) ==
    IF Len(digits) = 1 THEN digits[1]
    ELSE 10 * ParseInt(SubSeq(digits, 1, Len(digits) - 1)) + digits[Len(digits)]

\* a factory that waits for as many protocols as there are players
NeededProtocolsAll(players) == Cardinality(players)

\* ShareExchangerFactory.__init__: self.needed_protocols = len(players) - 1
NeededProtocols(players) == Cardinality(players) - 1

\* ShareExchangerFactory.identify_peer(protocol), with runtime.add_player
IdentifyPeer(p, peer_id) ==
    LET p1 == [p EXCEPT !.protocols = @ \cup {peer_id},
                        !.needed_protocols = @ - 1]
    IN  IF p1.needed_protocols = 0
        THEN [p1 EXCEPT !.ready = @ + 1,
                        !.ready_with = IF p.ready = 0 THEN p1.protocols ELSE @]
        ELSE p1

\* ShareExchanger.stringReceived while self.peer_id is None
IdentityReceived(p, peer, string) ==
    IdentifyPeer([p EXCEPT !.peer_id[peer] = ParseInt(string)], ParseInt(string))

\* create_runtime(id, players, threshold) is called at player i.
CreateRuntime(i) ==
    /\ ~pl[i].started
    /\ pl' = [pl EXCEPT ![i].started = TRUE,
                        ![i].needed_protocols = NeededProtocols(Players(cfg))]
    /\ UNCHANGED <<cfg, secret, net>>
    /\ ShareFrame

\* The connection between players i and peer, opened by the one with the
\* lower id once both runtimes exist, is made at i: connectionMade sends
\* str(runtime.id).
ConnectionMade(i, peer) ==
    /\ pl[i].started /\ pl[peer].started
    /\ pl[i].conn[peer] = "none"
    /\ pl' = [pl EXCEPT ![i].conn[peer] = "made"]
    /\ net' = [net EXCEPT ![<<i, peer>>] = Append(@, Str(i))]
    /\ UNCHANGED <<cfg, secret>>
    /\ ShareFrame

\* The first string on the connection from peer reaches player i.
IdentityDeliver(peer, i) ==
    /\ pl[i].conn[peer] = "made"
    /\ pl[i].peer_id[peer] = 0
    /\ net[<<peer, i>>] # <<>>
    /\ pl' = [pl EXCEPT ![i] = IdentityReceived(@, peer, Head(net[<<peer, i>>]))]
    /\ net' = [net EXCEPT ![<<peer, i>>] = Tail(@)]
    /\ UNCHANGED <<cfg, secret>>
    /\ ShareFrame

NextCreate ==
    \/ \E i \in Players(cfg) : CreateRuntime(i)
    \/ \E ch \in Channels(cfg) : ConnectionMade(ch[1], ch[2])
    \/ \E ch \in Channels(cfg) : IdentityDeliver(ch[1], ch[2])

InitCreate ==
    /\ \E n \in {2, 3, 4} :
          /\ cfg = [n |-> n]
          /\ pl = [i \in 1..n |->
                     [id |-> i, started |-> FALSE, needed_protocols |-> 0,
                      protocols |-> {},
                      conn |-> [j \in Peers(cfg, i) |-> "none"],
                      peer_id |-> [j \in Peers(cfg, i) |-> 0],
                      ready |-> 0, ready_with |-> {}]]
          /\ net = [ch \in Channels(cfg) |-> <<>>]
    /\ secret = <<>>
    /\ ShareOthersIdle

SpecCreate == InitCreate /\ [][NextCreate]_vars

\* C23: the Deferred create_runtime returned has been called at most once;
\* it has been called when the runtime holds a protocol for every other
\* player, and at that call it held one for every other player.
C23_ReadyOnceWithAll ==
    \A i \in DOMAIN pl :
        /\ pl[i].ready <= 1
        /\ pl[i].ready = 1 <=> (pl[i].started /\ pl[i].protocols = Peers(cfg, i))
        /\ pl[i].ready = 1 => pl[i].ready_with = Peers(cfg, i)

\* With four players, one runtime is ready while another one, which holds
\* some protocols already, still waits for the rest.
C23_Witness ==
    /\ cfg.n = 4
    /\ \E i, k \in DOMAIN pl :
          /\ pl[i].ready = 1
          /\ pl[k].started /\ pl[k].ready = 0 /\ pl[k].protocols # {}

----------------------------------------------------------------------------
(***************************************************************************)
(* A ShareList over the first n Shares of the heap with a threshold, made  *)
(* at any point between the calls of its Shares.                           *)
(***************************************************************************)

\* ShareList(shares, threshold): the new ShareList is the Share after the
\* last one of heap; threshold 0 stands for None
NewShareListWith(heap, ids, threshold) ==
    AttachCallbacks(
        Append(heap, [NewShare EXCEPT !.sl =
                         ShareListInit(Len(ids), IF threshold = 0 THEN Len(ids)
                                                 ELSE threshold)]),
        Len(heap) + 1, ids, 1)

ListScenarios ==
    {[op |-> "sharelist", modulus |-> 5, n |-> n, threshold |-> th] :
        n \in {2, 3}, th \in 0..3} \ {[op |-> "sharelist", modulus |-> 5, n |-> 2,
                                       threshold |-> 3]}

InitList ==
    /\ sh_scen \in ListScenarios
    /\ sh_heap = [k \in 1..sh_scen.n |-> NewShare]
    /\ sh_out = 0
    /\ sh_log = <<>>
    /\ ObjOthersIdle

\* The application makes the ShareList.
MakeList ==
    /\ sh_out = 0
    /\ sh_heap' = NewShareListWith(sh_heap, [k \in 1..sh_scen.n |-> k],
                                   sh_scen.threshold)
    /\ sh_out' = Len(sh_heap) + 1
    /\ UNCHANGED <<sh_scen, sh_log>>
    /\ ObjFrame

NextList ==
    \/ \E d \in 1..sh_scen.n, v \in ShareValues : ResolveShare(d, v)
    \/ \E d \in 1..sh_scen.n : FailShare(d)
    \/ MakeList

SpecList == InitList /\ [][NextList]_vars

\* The threshold the ShareList of the scenario waits for
ListThreshold == IF sh_scen.threshold = 0 THEN sh_scen.n ELSE sh_scen.threshold

\* The Shares of the list that have been called
ListResolved == {k \in 1..sh_scen.n : sh_heap[k].called}

\* C24: the ShareList has been called exactly when at least threshold of
\* its Shares have been, and its value is then a list of length n with
\* (True, value) or (False, failure) at the index of each Share that has
\* been called and None at the others.
C24_ShareListResolves ==
    sh_out # 0 =>
        /\ sh_heap[sh_out].called <=> Cardinality(ListResolved) >= ListThreshold
        /\ sh_heap[sh_out].called =>
              /\ sh_heap[sh_out].result.k = "results"
              /\ Len(sh_heap[sh_out].result.l) = sh_scen.n
              /\ \A k \in 1..sh_scen.n :
                    sh_heap[sh_out].result.l[k] =
                        IF k \in ListResolved
                        THEN [set |-> TRUE, ok |-> ~IsFailure(sh_heap[k].result),
                              v |-> sh_heap[k].result]
                        ELSE [set |-> FALSE, ok |-> FALSE, v |-> <<>>]

\* A ShareList over three Shares with threshold 2 was called by a failure
\* of the third Share after the first had a value, the second still open.
C24_Witness ==
    /\ sh_out # 0 /\ sh_scen.n = 3 /\ sh_scen.threshold = 2
    /\ sh_heap[sh_out].called
    /\ Len(sh_log) = 2 /\ sh_log[1].id = 1 /\ sh_log[1].arg.k = "val"
    /\ sh_log[2].id = 3 /\ IsFailure(sh_log[2].arg)
    /\ ~sh_heap[2].called

----------------------------------------------------------------------------
(***************************************************************************)
(* Pseudo-random secret sharing: prss of viff/prss.py and prss_share of    *)
(* the runtime.  A PRF is a table from keys to numbers below the modulus;  *)
(* cfg.prf[d][s] is the PRF that dealer d shares with the players of the   *)
(* subset s.  The state of player i in prss_share:                         *)
(*   tmp_shares  [inputter -> its PRSS value for that inputter]            *)
(*   result      [inputter -> the share it obtained for that inputter]     *)
(***************************************************************************)

RECURSIVE GenerateSubsets(_, _)
\* generate_subsets(orig_set, size)
GenerateSubsets(orig_set, size) ==
    IF Cardinality(orig_set) > size
    THEN UNION {GenerateSubsets(orig_set \ {element}, size) : element \in orig_set}
    ELSE IF Cardinality(orig_set) = size THEN {orig_set}
    ELSE {}

\* The elements of a set of numbers in increasing order
Sorted(S) ==
    CHOOSE f \in [1..Cardinality(S) -> S] :
        \A u, w \in 1..Cardinality(S) : u < w => f[u] < f[w]

\* a prss that adds up the PRFs of the subsets with j in them as they are
PrssUnweighted(n, j, modulus, prfs, key) ==
    LET used == {subset \in DOMAIN prfs : j \in subset}
    IN  FSum([subset \in used |-> ToField(prfs[subset][key], modulus)], used, modulus)

\* prss(n, j, field, prfs, key): for each subset with j in it, the PRF of
\* the subset at key times f(j), where f is 1 at 0 and 0 at the players
\* outside the subset
Prss(n, j, modulus, prfs, key) ==
    LET used == {subset \in DOMAIN prfs : j \in subset}
        f_in_j(subset) ==
            LET rest == Sorted((1..n) \ subset)
            IN  RecombineAt([k \in 1..Len(rest) |-> <<ToField(rest[k], modulus), 0>>]
                                \o << <<0, 1>> >>,
                            j, modulus)
    IN  FSum([subset \in used |-> FMul(prfs[subset][key], f_in_j(subset), modulus)],
             used, modulus)

\* self.players[self.id].dealer_prfs(modulus)[dealer]: the PRFs of dealer
\* that player holds, those of the subsets it is in and all of its own
DealerPrfs(c, player, dealer) ==
    [subset \in {u \in GenerateSubsets(1..c.n, c.n - c.t) :
                    player \in u \cup {dealer}} |-> c.prf[dealer][subset]]

\* prss_share is the application's first counted operation.
PrssPc == EnterPc(<<0>>)

\* Runtime.prss_share(inputters, field, element)
PrssShare(c, p, element) ==
    LET key == PrssPc
        all_shares == [k \in 1..c.n |->
                          <<ToField(k, c.modulus),
                            Prss(c.n, k, c.modulus, DealerPrfs(c, p.id, p.id), key)>>]
        shared == Recombine(SubSeq(all_shares, 1, c.t + 1), c.modulus)
        correction == FSub(ToField(element, c.modulus), shared, c.modulus)
        p1 == IF p.id \in c.inputters
              THEN SendShares(p, Peers(c, p.id), key,
                              [j \in Peers(c, p.id) |-> correction])
              ELSE p
        tmp == [d \in c.inputters |->
                   Prss(c.n, p.id, c.modulus, DealerPrfs(c, p.id, d), key)]
        exp == [d \in c.inputters \ {p.id} |->
                   ExpectData(p1.inc[d], <<key, "share">>,
                              [list |-> "prss", index |-> d])]
    IN  [p1 EXCEPT
            !.inc = [j \in Peers(c, p.id) |->
                        IF j \in c.inputters THEN exp[j].dict ELSE @[j]],
            !.tmp_shares = tmp,
            !.result = [d \in c.inputters |->
                           IF d = p.id THEN Result(FAdd(tmp[d], correction, c.modulus))
                           ELSE IF exp[d].fired # <<>>
                                THEN Result(FAdd(tmp[d],
                                                 ToField(exp[d].fired[1].data, c.modulus),
                                                 c.modulus))
                                ELSE Unset]]

\* ShareExchanger.stringReceived on the connection to peer, and the
\* callbacks of the expected Share: field(value), then s + c
PrssDataReceived(c, p, peer, msg) ==
    LET r == StringReceived(p.inc[peer], <<msg.pc, msg.type>>, msg.data)
        p1 == [p EXCEPT !.inc[peer] = r.dict]
    IN  IF r.fired = <<>> THEN p1
        ELSE [p1 EXCEPT !.result[r.fired[1].deferred.index] =
                 Result(FAdd(p.tmp_shares[r.fired[1].deferred.index],
                             ToField(msg.data, c.modulus), c.modulus))]

\* Player i's application calls prss_share.
PrssStart(i) ==
    /\ ~pl[i].started
    /\ Flush(i, PrssShare(cfg, [pl[i] EXCEPT !.started = TRUE],
                          IF i \in cfg.inputters THEN secret[i] ELSE 0),
             <<>>)
    /\ UNCHANGED <<cfg, secret>>
    /\ ShareFrame

\* The oldest message in flight from player j reaches player i.
PrssDeliver(j, i) ==
    /\ net[<<j, i>>] # <<>>
    /\ Flush(i, PrssDataReceived(cfg, pl[i], j, Head(net[<<j, i>>])), <<j, i>>)
    /\ UNCHANGED <<cfg, secret>>
    /\ ShareFrame

NextPrss ==
    \/ \E i \in Players(cfg) : PrssStart(i)
    \/ \E ch \in Channels(cfg) : PrssDeliver(ch[1], ch[2])

RECURSIVE SumOf(_)
SumOf(S) == IF S = {} THEN 0 ELSE LET k == CHOOSE k \in S : TRUE IN k + SumOf(S \ {k})

\* The PRFs of a run: for each dealer and each subset of n - t players a
\* table with one entry, the key of the prss_share call
PrfTable(n, t, modulus, a, b) ==
    [d \in 1..n |->
        [subset \in GenerateSubsets(1..n, n - t) |->
            [key \in {PrssPc} |->
                (a * d + b * SumOf(subset) * SumOf(subset) + d * SumOf(subset)) % modulus]]]

\* Three players with threshold 1 and every kind of inputter set, or four
\* players with one inputter; the inputters' elements are 42 + id as in
\* test_prss_share_int, or another choice.
PrssInputs ==
    {[n |-> 3, t |-> 1, modulus |-> 7, inputters |-> inp, element |-> el,
      prf |-> PrfTable(3, 1, 7, ab[1], ab[2])] :
        inp \in {{1, 2, 3}, {1, 3}, {2}},
        el \in {<<43, 44, 45>>, <<0, 6, 3>>},
        ab \in {<<1, 2>>, <<3, 0>>, <<2, 5>>}}
    \cup
    {[n |-> 4, t |-> 1, modulus |-> 7, inputters |-> {2}, element |-> <<5, 3, 1, 0>>,
      prf |-> PrfTable(4, 1, 7, ab[1], ab[2])] : ab \in {<<1, 2>>, <<4, 3>>}}

InitPrss ==
    /\ \E x \in PrssInputs :
          /\ cfg = x
          /\ secret = x.element
          /\ pl = [i \in 1..x.n |->
                     [id |-> i, started |-> FALSE,
                      inc |-> [j \in Peers(x, i) |-> <<>>],
                      out |-> [j \in Peers(x, i) |-> <<>>],
                      tmp_shares |-> <<>>,
                      result |-> [d \in x.inputters |-> Unset]]]
          /\ net = [ch \in Channels(x) |-> <<>>]
    /\ ShareOthersIdle

SpecPrss == InitPrss /\ [][NextPrss]_vars

\* What the players of S recombine the shares they obtained for inputter d to
PrssOpened(S, d) ==
    LET order == Sorted(S)
    IN  Recombine([u \in 1..Cardinality(S) |->
                      <<ToField(order[u], cfg.modulus), pl[order[u]].result[d].v>>],
                  cfg.modulus)

\* C25: for every inputter, the shares that any set of at least t+1 players
\* have obtained for it recombine to the inputter's element.
C25_PrssShareOpens ==
    \A d \in cfg.inputters :
        \A S \in SUBSET Players(cfg) :
            (Cardinality(S) > cfg.t /\ \A i \in S : pl[i].result[d].set)
                => PrssOpened(S, d) = secret[d] % cfg.modulus

\* With three inputters, all three players hold a share for each inputter,
\* and the shares for the first inputter are not all equal.
C25_Witness ==
    /\ cfg.inputters = {1, 2, 3}
    /\ \A i \in DOMAIN pl : \A d \in cfg.inputters : pl[i].result[d].set
    /\ pl[1].result[1].v # pl[2].result[1].v

----------------------------------------------------------------------------
(***************************************************************************)
(* prss on its own: the players evaluate prss(n, j, field, prfs, key) for  *)
(* one key and one set of PRFs, one player at a time.                      *)
(***************************************************************************)

\* The PRFs of the subsets of n - t players, as tables with the one key
PrfSet(n, t, modulus, a, b) ==
    [subset \in GenerateSubsets(1..n, n - t) |->
        [key \in {PrssPc} |->
            (a + b * SumOf(subset) * SumOf(subset) + Cardinality(subset \cap {1, 2}))
                % modulus]]

PrssOnlyInputs ==
    {[n |-> nt[1], t |-> nt[2], modulus |-> nt[3],
      prfs |-> PrfSet(nt[1], nt[2], nt[3], ab[1], ab[2])] :
        nt \in {<<3, 1, 5>>, <<4, 1, 7>>, <<4, 2, 7>>, <<5, 2, 11>>},
        ab \in {<<0, 1>>, <<3, 2>>, <<6, 4>>}}

InitPrssOnly ==
    /\ \E x \in PrssOnlyInputs :
          /\ cfg = x
          /\ pl = [j \in 1..x.n |-> Unset]
    /\ secret = <<>>
    /\ net = <<>>
    /\ ShareOthersIdle

\* Player j evaluates prss with the PRFs of the subsets it is in.
PrssEval(j) ==
    /\ ~pl[j].set
    /\ pl' = [pl EXCEPT ![j] =
                 Result(Prss(cfg.n, j, cfg.modulus,
                             [subset \in {u \in DOMAIN cfg.prfs : j \in u} |->
                                 cfg.prfs[subset]],
                             PrssPc))]
    /\ UNCHANGED <<cfg, secret, net>>
    /\ ShareFrame

NextPrssOnly == \E j \in Players(cfg) : PrssEval(j)

SpecPrssOnly == InitPrssOnly /\ [][NextPrssOnly]_vars

\* What the shares of the players of S recombine to
PrssRecombined(S) ==
    LET order == Sorted(S)
    IN  Recombine([u \in 1..Cardinality(S) |->
                      <<ToField(order[u], cfg.modulus), pl[order[u]].v>>],
                  cfg.modulus)

\* The sets of at least t+1 players that have all evaluated prss
PrssQualified ==
    {S \in SUBSET Players(cfg) : Cardinality(S) > cfg.t /\ \A j \in S : pl[j].set}

\* C26: the shares of any two sets of at least t+1 players recombine to
\* the same value.
C26_PrssConsistent ==
    \A S1, S2 \in PrssQualified : PrssRecombined(S1) = PrssRecombined(S2)

\* Five players with threshold 2 have all evaluated prss, their shares are
\* not all the same, and they recombine to a value that is not zero.
C26_Witness ==
    /\ cfg.n = 5
    /\ \A j \in DOMAIN pl : pl[j].set
    /\ \E j, k \in DOMAIN pl : pl[j].v # pl[k].v
    /\ PrssRecombined({1, 2, 3}) # 0

----------------------------------------------------------------------------
(***************************************************************************)
(* open(xor(share_a, share_b)).  Over Zp, xor is                           *)
(* share_a + share_b - 2 * share_a * share_b: the sum and 2 * share_a are  *)
(* local, the product with share_b is Runtime.mul with its resharing, and  *)
(* the difference resolves when the product does.  Over GF256 xor is the   *)
(* local sum share_a + share_b.  Players are the players of mul above with *)
(* one more field, share_c, the value of the Share xor returned.           *)
(***************************************************************************)

\* Python's x ^ y on naturals
RECURSIVE BitXor(_, _)
BitXor(x, y) ==
    IF x = 0 THEN y
    ELSE IF y = 0 THEN x
         ELSE ((x + y) % 2) + 2 * BitXor(x \div 2, y \div 2)

\* _generate_tables, the first loop up to c = upto - 1: table[c + 1] is
\* _exp_table[c]
RECURSIVE GenerateExpTable(_, _)
GenerateExpTable(table, upto) ==
    IF Len(table) = upto THEN table
    ELSE LET a == table[Len(table)]
             shifted == IF a >= 128 THEN BitXor(2 * a, 27) ELSE 2 * a
         IN  GenerateExpTable(Append(table, BitXor(shifted, a) % 256), upto)

\* _exp_table, made in four runs of the loop; _exp_table[255] = _exp_table[0]
ExpTable64 == GenerateExpTable(<<1>>, 64)
ExpTable128 == GenerateExpTable(ExpTable64, 128)
ExpTable192 == GenerateExpTable(ExpTable128, 192)
ExpTable == Append(GenerateExpTable(ExpTable192, 255), 1)

\* _log_table
LogTable ==
    [v \in 0..255 |-> IF v = 0 THEN 0 ELSE CHOOSE c \in 0..254 : ExpTable[c + 1] = v]

\* _inv_table, which has the keys range(1, 255)
InvTable == [c \in 1..254 |-> ExpTable[255 - LogTable[c] + 1]]

\* GF256Element.__add__ (and __sub__)
GF256Add(a, b) == BitXor(a, b) % 256

\* GF256Element.__mul__
GF256Mul(a, b) ==
    IF a = 0 \/ b = 0 THEN 0
    ELSE ExpTable[((LogTable[a] + LogTable[b]) % 255) + 1]

\* GF256Element.__div__: self * ~other
GF256Div(a, b) == GF256Mul(a, InvTable[b])

RECURSIVE GF256Product(_, _)
GF256Product(f, S) ==
    IF S = {} THEN 1
    ELSE LET k == CHOOSE k \in S : TRUE
         IN  GF256Mul(f[k], GF256Product(f, S \ {k}))

RECURSIVE GF256Sum(_, _)
GF256Sum(f, S) ==
    IF S = {} THEN 0
    ELSE LET k == CHOOSE k \in S : TRUE
         IN  GF256Add(f[k], GF256Sum(f, S \ {k}))

\* shamir.recombine(shares) on GF256 elements
GF256Recombine(points) ==
    LET I == DOMAIN points
        term(i) ==
            GF256Mul(points[i][2],
                     GF256Product([j \in I \ {i} |->
                                      GF256Div(GF256Add(0, points[j][1]),
                                               GF256Add(points[i][1], points[j][1]))],
                                  I \ {i}))
    IN  GF256Sum([i \in I |-> term(i)], I)

\* the share of player i when the bit is shared with the polynomial
\* bit + coef * x over GF256
GF256Share(bit, coef, i) == GF256Add(bit, GF256Mul(coef, i))

\* xor is the application's first operation; inside it the local mul(2,
\* share_a) is counted first, then mul(2 * share_a, share_b), whose callbacks
\* run under the counter saved inside it; open is the second operation.
XorPc == EnterPc(<<0>>)
XorMulPc == EnterPc(LeavePc(XorPc))
XorResharePc == EnterPc(XorMulPc)
XorOpenPc == EnterPc(LeavePc(<<0>>))

\* Runtime._recombine's callbacks in the field of the run
XorRecombineResult(c, sl, threshold) ==
    IF c.field = "GF256"
    THEN GF256Recombine(FilterGoodShares(sl.results, threshold))
    ELSE RecombineResult(sl, threshold, c.modulus)

\* Runtime.open.exchange(share) on the Share xor returned
XorOpenExchange(c, p, share) ==
    LET p1 == SendShares(p, Peers(c, p.id), XorOpenPc,
                         [j \in Peers(c, p.id) |-> share])
        exp == ExpectShares(c, p1, XorOpenPc, "open")
        sl == ShareList(GatheredShares(c, p1, exp, share), c.t + 1)
        p2 == [p1 EXCEPT !.inc = [j \in Peers(c, p.id) |-> exp[j].dict],
                         !.open_list = sl]
    IN  IF sl.called
        THEN [p2 EXCEPT !.opened = Result(XorRecombineResult(c, sl, c.t))]
        ELSE p2

\* Runtime.mul(constant, share): result = share.clone() with the callback
\* lambda b: share_a * b
MulConstant(c, constant, a) == FMul(constant, a, c.modulus)

\* The product resolves: the callback of sub, lambda (a, b): a - b, on the
\* sum and the product, then the exchange open scheduled on the difference.
XorResolved(c, p, product) ==
    LET share_c == FSub(FAdd(p.a, p.b, c.modulus), product, c.modulus)
    IN  XorOpenExchange(c, [p EXCEPT !.mul_result = Result(product),
                                    !.share_c = Result(share_c)], share_c)

\* Runtime.mul(2 * share_a, share_b): the product, _shamir_share of it with
\* the coefficients coefs, and _recombine(shares, threshold=2*t)
XorMul(c, p, coefs) ==
    LET number == FMul(MulConstant(c, 2, p.a), p.b, c.modulus)
        shares == ShamirShare(number, coefs, c.n, c.modulus)
        exp == ExpectShares(c, p, XorResharePc, "mul")
        p1 == SendShares(p, Peers(c, p.id), XorResharePc,
                         [j \in Peers(c, p.id) |-> shares[j][2]])
        sl == ShareList(GatheredShares(c, p1, exp, shares[p.id][2]), 2 * c.t + 1)
        p2 == [p1 EXCEPT !.inc = [j \in Peers(c, p.id) |-> exp[j].dict],
                         !.mul_list = sl, !.coefs = coefs]
    IN  IF sl.called
        THEN XorResolved(c, p2, RecombineResult(sl, 2 * c.t, c.modulus))
        ELSE p2

\* Runtime.xor(share_a, share_b) on two resolved Shares, then open
Xor(c, p, coefs) ==
    IF c.field = "GF256"
    THEN LET share_c == GF256Add(p.a, p.b)
         IN  XorOpenExchange(c, [p EXCEPT !.share_c = Result(share_c)], share_c)
    ELSE XorMul(c, p, coefs)

\* A share expected from peer arrives for the Deferred w.
XorShareArrived(c, p, w, peer, data) ==
    LET pair == <<ToField(peer, c.modulus), ToField(data, c.modulus)>>
    IN  IF w.list = "open"
        THEN LET sl == CallbackFired(p.open_list, w.index, TRUE, pair)
                 p1 == [p EXCEPT !.open_list = sl]
             IN  IF sl.called /\ ~p.open_list.called
                 THEN [p1 EXCEPT !.opened =
                          Result(XorRecombineResult(c, sl, c.t))]
                 ELSE p1
        ELSE LET sl == CallbackFired(p.mul_list, w.index, TRUE, pair)
                 p1 == [p EXCEPT !.mul_list = sl]
             IN  IF sl.called /\ ~p.mul_list.called
                 THEN XorResolved(c, p1, RecombineResult(sl, 2 * c.t, c.modulus))
                 ELSE p1

\* ShareExchanger.stringReceived on the connection to peer
XorDataReceived(c, p, peer, msg) ==
    LET r == StringReceived(p.inc[peer], <<msg.pc, msg.type>>, msg.data)
        p1 == [p EXCEPT !.inc[peer] = r.dict]
    IN  IF r.fired = <<>> THEN p1
        ELSE XorShareArrived(c, p1, r.fired[1].deferred, peer, msg.data)

\* Player i's application runs: open(xor(share_a, share_b)).
XorStart(i) ==
    /\ ~pl[i].started
    /\ \E coefs \in cfg.coins[i] :
          Flush(i, Xor(cfg, [pl[i] EXCEPT !.started = TRUE], coefs), <<>>)
    /\ UNCHANGED <<cfg, secret>>
    /\ ShareFrame

\* The oldest message in flight from player j reaches player i.
XorDeliver(j, i) ==
    /\ i \notin cfg.stalled
    /\ net[<<j, i>>] # <<>>
    /\ Flush(i, XorDataReceived(cfg, pl[i], j, Head(net[<<j, i>>])), <<j, i>>)
    /\ UNCHANGED <<cfg, secret>>
    /\ ShareFrame

NextXor ==
    \/ \E i \in Players(cfg) : XorStart(i)
    \/ \E ch \in Channels(cfg) : XorDeliver(ch[1], ch[2])

\* The bits a and b of test_xor, shared over Zp (modulus 5) among three
\* players with any polynomial of degree 1 (coefficient 1 is the test's
\* field(a) + runtime.id) and reshared with any of two coefficients, among
\* four players as in the runs of mul above, and shared over GF256 among
\* three players.
XorInputs ==
    {[field |-> "Zp", n |-> 3, t |-> 1, modulus |-> 5, a |-> ab[1], ca |-> 1,
      b |-> ab[2], cb |-> k, coins |-> [i \in 1..3 |-> {<<0>>, <<i + 1>>}],
      stalled |-> {}] : ab \in (0..1) \X (0..1), k \in {1, 3}}
    \cup {[field |-> "Zp", n |-> 4, t |-> 1, modulus |-> 5, a |-> ab[1], ca |-> 1,
           b |-> ab[2], cb |-> 2, coins |-> [i \in 1..4 |-> {<<i * i * i % 5>>}],
           stalled |-> {4}] : ab \in (0..1) \X (0..1)}
    \cup {[field |-> "GF256", n |-> 3, t |-> 1, modulus |-> 256, a |-> ab[1],
           ca |-> k[1], b |-> ab[2], cb |-> k[2], coins |-> NoCoins(3),
           stalled |-> {}] : ab \in (0..1) \X (0..1), k \in {<<1, 1>>, <<87, 200>>}}

\* the share of player i of the bit shared with the polynomial bit + coef * x
BitShare(x, bit, coef, i) ==
    IF x.field = "GF256" THEN GF256Share(bit, coef, i)
    ELSE ShamirShare(bit, <<coef>>, x.n, x.modulus)[i][2]

InitXor ==
    /\ \E x \in XorInputs :
          /\ cfg = [field |-> x.field, n |-> x.n, t |-> x.t, modulus |-> x.modulus,
                    coins |-> x.coins, stalled |-> x.stalled]
          /\ secret = [a |-> x.a, b |-> x.b]
          /\ pl = [i \in 1..x.n |->
                     [s \in {"share_c"} |-> Unset]
                        @@ InitPlayer(x, i, BitShare(x, x.a, x.ca, i),
                                      BitShare(x, x.b, x.cb, i))]
          /\ net = [ch \in Channels(x) |-> <<>>]
    /\ ShareOthersIdle

SpecXor == InitXor /\ [][NextXor]_vars

\* a XOR b for bits
BitsXor == BitXor(secret.a, secret.b)

\* C27: for bits a and b, the Share xor returns opens to a XOR b at every
\* player, over Zp (as a + b - 2ab) and over GF256 (as a + b).
C27_XorOpens ==
    \A i \in DOMAIN pl : pl[i].opened.set => pl[i].opened.v = BitsXor

\* C27 where every player recombines all the reshared products (n = 2t+1)
\* and over GF256, where xor does not multiply.
C27_XorOpensMinimal ==
    (cfg.n = 2 * cfg.t + 1 \/ cfg.field = "GF256") => C27_XorOpens

\* Over Zp two of four players have opened xor of the bits 1 and 1, after
\* they recombined the reshared products of different sets of 2t+1 players.
C27_Witness ==
    /\ cfg.field = "Zp" /\ cfg.n = 4 /\ secret.a = 1 /\ secret.b = 1
    /\ \E i, j \in DOMAIN pl : i # j /\ pl[i].opened.set /\ pl[j].opened.set
    /\ \E i, j \in DOMAIN pl :
          FilterGoodShares(pl[i].mul_list.results, 2 * cfg.t)
             # FilterGoodShares(pl[j].mul_list.results, 2 * cfg.t)

\* Over Zp and over GF256 all three players have opened xor of 1 and 1 to 0.
C27_WitnessMinimal ==
    /\ cfg.n = 3 /\ secret.a = 1 /\ secret.b = 1
    /\ \A i \in DOMAIN pl : pl[i].opened.set /\ pl[i].opened.v = 0
    /\ cfg.field = "GF256"

----------------------------------------------------------------------------
(***************************************************************************)
(* BeDOZaMixin.open.  Player i holds its share x_i of the value, with the  *)
(* MAC m_i[j] = MAC(alpha_j, beta_j[i], x_i) under the keys of each player *)
(* j.  exchange sends x_i and m_i[j] to every player j, itself included;   *)
(* recombine_value adds the x_i, checks each MAC and broadcasts the        *)
(* verdict str(isOK); check decides on the gathered verdicts.  A run names *)
(* the (sender, receiver) pairs between which the value or the MAC is      *)
(* changed on the way.  The state of player i:                             *)
(*   started      open has been called                                     *)
(*   got          [peer -> the shares received from it: value, then MAC]   *)
(*   isOK         the verdict of recombine_value, once it has run          *)
(*   verdicts     [peer -> the string it broadcast, once received]         *)
(*   result       the result of the Share open returned                    *)
(***************************************************************************)

NoOutcome == [set |-> FALSE, ok |-> FALSE, v |-> 0]
\* the Share resolved to a value
Returned(v) == [set |-> TRUE, ok |-> TRUE, v |-> v]
\* the callback raised BeDOZaException
Raised == [set |-> TRUE, ok |-> FALSE, v |-> 0]

\* BeDOZaMixin.MAC
MAC(alpha, beta, v, modulus) == FAdd(FMul(alpha, v, modulus), beta, modulus)

\* str(isOK)
StrBool(b) == IF b THEN "True" ELSE "False"

\* a Python value that is a string or a boolean
PyStr(s) == [k |-> "str", s |-> s, b |-> FALSE]
PyBool(b) == [k |-> "bool", s |-> "", b |-> b]
\* its truth value in a condition
Truthy(x) == IF x.k = "str" THEN x.s # "" ELSE x.b

\* reduce(lambda x, y: true_str == y, ls) from the accumulator acc on
RECURSIVE ReduceFrom(_, _, _)
ReduceFrom(acc, ls, k) ==
    IF k > Len(ls) THEN acc
    ELSE ReduceFrom(PyBool("True" = ls[k]), ls, k + 1)

\* reduce(lambda x, y: true_str == y, ls): the first item starts as the
\* accumulator
ReduceVerdicts(ls) == ReduceFrom(PyStr(ls[1]), ls, 2)

\* recombine_value.check(ls, x, isOK)
Check(ls, x) == IF Truthy(ReduceVerdicts(ls)) THEN Returned(x) ELSE Raised

\* The keys of player j: alpha_j, and beta_j[i] for the share of player i.
Alpha(c, j) == c.alpha[j]
Beta(c, j, i) == c.beta[j][i]

\* The value and the MAC the connection from i hands to j.
SentValue(c, i, j) ==
    IF <<i, j, "value">> \in c.tamper THEN FAdd(c.x[i], 1, c.modulus) ELSE c.x[i]
SentMac(c, i, j) ==
    LET m == MAC(Alpha(c, j), Beta(c, j, i), c.x[i], c.modulus)
    IN  IF <<i, j, "mac">> \in c.tamper THEN FAdd(m, 1, c.modulus) ELSE m

RECURSIVE MacsHold(_, _, _)
\* the loop of recombine_value: isOK = isOK and mi == mi_prime
MacsHold(c, p, inx) ==
    IF inx > c.n THEN TRUE
    ELSE /\ p.got[inx][2] = MAC(Alpha(c, p.id), Beta(c, p.id, inx),
                                p.got[inx][1], c.modulus)
         /\ MacsHold(c, p, inx + 1)

RECURSIVE SumValues(_, _, _)
\* the loop of recombine_value: x += xi
SumValues(c, p, inx) ==
    IF inx > c.n THEN 0
    ELSE FAdd(p.got[inx][1], SumValues(c, p, inx + 1), c.modulus)

\* gatherResults(ds).addCallbacks(check, ...): check runs once recombine_value
\* has broadcast and the verdict of every player is there.
VerdictsGathered(c, p) ==
    IF p.isOK.set /\ ~p.result.set /\ \A j \in 1..c.n : p.verdicts[j] # ""
    THEN [p EXCEPT !.result = Check([j \in 1..c.n |-> p.verdicts[j]], p.x)]
    ELSE p

\* open.recombine_value(shares_codes, keyList), once the value and the MAC
\* of every player have arrived; its broadcast goes to every player.
RecombineValue(c, p) ==
    IF p.started /\ ~p.isOK.set /\ \A j \in 1..c.n : Len(p.got[j]) = 2
    THEN LET isOK == MacsHold(c, p, 1)
         IN  [p EXCEPT !.isOK = Result(isOK), !.x = SumValues(c, p, 1),
                       !.out = [j \in 1..c.n |->
                                   <<[type |-> "verdict", data |-> StrBool(isOK)]>>]]
    ELSE p

\* open.exchange(shareContent, receivers): sendShare of the value and of the
\* MAC to every receiver
BedozaExchange(c, p) ==
    [p EXCEPT !.started = TRUE,
              !.out = [j \in 1..c.n |->
                          <<[type |-> "share", data |-> SentValue(c, p.id, j)],
                            [type |-> "share", data |-> SentMac(c, p.id, j)]>>]]

\* A string from peer reaches the player.
BedozaReceived(c, p, peer, msg) ==
    IF msg.type = "share"
    THEN RecombineValue(c, [p EXCEPT !.got[peer] = Append(@, msg.data)])
    ELSE VerdictsGathered(c, [p EXCEPT !.verdicts[peer] = msg.data])

\* What player i sent goes onto its connections.
BedozaFlush(i, p, skip) ==
    /\ net' = [ch \in DOMAIN net |->
                 LET rest == IF ch = skip THEN Tail(net[ch]) ELSE net[ch]
                 IN  IF ch[1] = i THEN rest \o p.out[ch[2]] ELSE rest]
    /\ pl' = [pl EXCEPT ![i] = [p EXCEPT !.out = [j \in DOMAIN @ |-> <<>>]]]

\* Player i calls open(share); whatever has arrived before is buffered, so
\* recombine_value and check may run at once.
BedozaOpen(i) ==
    /\ ~pl[i].started
    /\ LET p1 == BedozaExchange(cfg, pl[i])
           sent == p1.out
           p2 == RecombineValue(cfg, [p1 EXCEPT !.out = [j \in DOMAIN @ |-> <<>>]])
           p3 == VerdictsGathered(cfg, p2)
       IN  BedozaFlush(i, [p3 EXCEPT !.out = [j \in DOMAIN @ |-> sent[j] \o p3.out[j]]],
                       <<>>)
    /\ UNCHANGED <<cfg, secret>>
    /\ ShareFrame

\* The oldest string in flight from player j reaches player i.
BedozaDeliver(j, i) ==
    /\ net[<<j, i>>] # <<>>
    /\ LET p1 == BedozaReceived(cfg, pl[i], j, Head(net[<<j, i>>]))
       IN  BedozaFlush(i, VerdictsGathered(cfg, p1), <<j, i>>)
    /\ UNCHANGED <<cfg, secret>>
    /\ ShareFrame

NextBedoza ==
    \/ \E i \in Players(cfg) : BedozaOpen(i)
    \/ \E j, i \in Players(cfg) : BedozaDeliver(j, i)

\* Two or three players over Z5 with fixed shares and keys; nothing is
\* changed on the way, or the value or the MAC between one pair of players.
BedozaInputs ==
    {[n |-> n, modulus |-> 5, x |-> [i \in 1..n |-> (3 * i + 1) % 5],
      alpha |-> [j \in 1..n |-> j + 1],
      beta |-> [j \in 1..n |-> [i \in 1..n |-> (2 * i + j) % 5]],
      tamper |-> tamper] :
        n \in {2, 3},
        tamper \in {{}, {<<2, 1, "value">>}, {<<1, 2, "mac">>}, {<<1, 1, "mac">>},
                    {<<2, 1, "mac">>, <<1, 2, "value">>}}}
    \cup {[n |-> 3, modulus |-> 5, x |-> <<4, 2, 0>>, alpha |-> <<2, 3, 4>>,
           beta |-> <<<<3, 0, 2>>, <<4, 1, 3>>, <<0, 2, 4>>>>,
           tamper |-> {<<1, 3, "value">>}]}

InitBedoza ==
    /\ \E x \in BedozaInputs :
          /\ cfg = x
          /\ secret = [a |-> 0, b |-> 0]
          /\ pl = [i \in 1..x.n |->
                     [id |-> i, started |-> FALSE,
                      got |-> [j \in 1..x.n |-> <<>>],
                      out |-> [j \in 1..x.n |-> <<>>],
                      isOK |-> Unset, x |-> 0,
                      verdicts |-> [j \in 1..x.n |-> ""],
                      result |-> NoOutcome]]
          /\ net = [ch \in (1..x.n) \X (1..x.n) |-> <<>>]
    /\ ShareOthersIdle

SpecBedoza == InitBedoza /\ [][NextBedoza]_vars

\* Player j has broadcast that a MAC it checked was wrong.
ReportedFailure(j) == pl[j].isOK.set /\ ~pl[j].isOK.v

\* C28: when any player's broadcast verdict says a MAC check failed, open
\* returns no value at any player: it fails with BeDOZaException.
C28_OpenFailsOnBadVerdict ==
    \A i \in DOMAIN pl :
        (pl[i].result.set /\ \E j \in DOMAIN pl : pl[i].verdicts[j] = "False")
            => ~pl[i].result.ok

\* C28 for the last position of the verdict list only, which is the one
\* check looks at.
C28_OpenFailsOnLastVerdict ==
    \A i \in DOMAIN pl :
        (pl[i].result.set /\ pl[i].verdicts[cfg.n] = "False") => ~pl[i].result.ok

\* Three players: player 1 found a wrong MAC and broadcast False, the others
\* broadcast True, and player 1's open has returned a value all the same.
C28_Witness ==
    /\ cfg.n = 3
    /\ ReportedFailure(1)
    /\ pl[1].verdicts = <<"False", "True", "True">>
    /\ pl[1].result.set /\ pl[1].result.ok

\* The last player found a wrong MAC, and open has failed at every player.
C28_WitnessLast ==
    /\ ReportedFailure(cfg.n)
    /\ \A i \in DOMAIN pl : pl[i].result.set /\ ~pl[i].result.ok

----------------------------------------------------------------------------
(***************************************************************************)
(* test_open_no_mutate on the Share objects: a player's Share holds its    *)
(* own share of the secret, open is called on it, the Share of _recombine  *)
(* that exchange returned fires with the opened secret, and the test adds  *)
(* assertEquals(own share) to the Share it gave to open.  sh_scen names    *)
(* the own share, the secret, and whether the Share was made with its      *)
(* value (as in the test) or is resolved later; sh_log records the         *)
(* addCallback of the test.                                                *)
(***************************************************************************)

\* Deferred._continue(result) on the Share d that waits for the Deferred its
\* callback returned: the result is handed over and the chain goes on
DeferredContinue(heap, d, result) ==
    RunDeferred([heap EXCEPT ![d].result = result, ![d].paused = FALSE], d)

OpenScenarios ==
    [op : {"open"}, modulus : {5}, own : 1..4, secret : 0..4,
     made_with_value : BOOLEAN]

InitOpenObj ==
    /\ sh_scen \in OpenScenarios
    /\ sh_heap = IF sh_scen.made_with_value
                 THEN ShareWithValue(<<>>, Val(sh_scen.own))
                 ELSE <<NewShare>>
    /\ sh_out = 0
    /\ sh_log = <<>>
    /\ ObjOthersIdle

\* share.callback(own share): the share arrives after the Share was made
OwnShareArrives ==
    /\ ~sh_heap[1].called
    /\ sh_heap' = DeferredCallback(sh_heap, 1, Val(sh_scen.own)).heap
    /\ UNCHANGED <<sh_scen, sh_out, sh_log>>
    /\ ObjFrame

\* opened = runtime.open(share)
OpenCall ==
    /\ sh_out = 0
    /\ LET r == OpenShare(sh_heap, 1)
       IN  sh_heap' = r.heap /\ sh_out' = r.out
    /\ UNCHANGED <<sh_scen, sh_log>>
    /\ ObjFrame

\* The Share of _recombine fires with the secret: open has completed.
RecombineFires ==
    /\ sh_out # 0
    /\ sh_heap[sh_out].paused
    /\ sh_heap' = DeferredContinue(sh_heap, sh_out, Val(sh_scen.secret))
    /\ UNCHANGED <<sh_scen, sh_out, sh_log>>
    /\ ObjFrame

\* share.addCallback(self.assertEquals, own share), after the call of open
AssertOnShare ==
    /\ sh_out # 0
    /\ sh_log = <<>>
    /\ sh_heap' = AddCallbackOnly(sh_heap, 1,
                                  Fn("assertEquals", 0, sh_scen.own, FALSE, 0))
    /\ sh_log' = <<[id |-> 1, expected |-> sh_scen.own]>>
    /\ UNCHANGED <<sh_scen, sh_out>>
    /\ ObjFrame

NextOpenObj ==
    \/ OwnShareArrives
    \/ OpenCall
    \/ RecombineFires
    \/ AssertOnShare

SpecOpenObj == InitOpenObj /\ [][NextOpenObj]_vars

\* open has completed: the Share it returned holds the opened secret.
OpenCompleted ==
    /\ sh_out # 0
    /\ sh_heap[sh_out].called /\ ~sh_heap[sh_out].paused
    /\ sh_heap[sh_out].result = Val(sh_scen.secret)

\* C29: after open has completed, the Share that was given to open holds
\* the player's own share, and assertEquals(own share) added to it passes
\* (and leaves None): no callback on it sees the opened secret.
C29_OpenLeavesShare ==
    OpenCompleted =>
        sh_heap[1].result = IF sh_log = <<>> THEN Val(sh_scen.own) ELSE NoneVal

\* open has completed with a secret that differs from the own share, on a
\* Share made with its value, and the assertion was added after that.
C29_Witness ==
    /\ OpenCompleted
    /\ sh_scen.secret # sh_scen.own /\ sh_scen.made_with_value
    /\ sh_log # <<>> /\ sh_heap[1].cbs = <<>>
    /\ sh_out # 1

----------------------------------------------------------------------------
(***************************************************************************)
(* Usage errors.  One player constructs its runtime and makes one call of  *)
(* shamir_share or prss_share; the run names the threshold, the inputters  *)
(* and the number or element of the call (Unset is None).  pl is the       *)
(* runtime: made, program_counter, inc and out as for the players above    *)
(* (out keeps what was sent), and log, one record for the constructor and  *)
(* one for the call: whether it raised, with inc and out before and after. *)
(***************************************************************************)

\* BasicRuntime.__init__: assert threshold > 0
ThresholdPositive(threshold) == threshold > 0

\* the record of a call in the log
Logged(op, p, after, raised) ==
    [op |-> op, raised |-> raised, inc_before |-> p.inc, out_before |-> p.out,
     inc_after |-> after.inc, out_after |-> after.out]

\* shamir_share and prss_share are the application's first counted call.
UsagePc == EnterPc(<<0>>)

\* the coefficients shamir.share draws in these runs
UsageCoefs(threshold) == [k \in 1..threshold |-> 1]

RECURSIVE ShamirShareLoop(_, _, _, _, _)
\* Runtime.shamir_share, the loop "for peer_id in inputters" from the k-th
\* inputter on: field(number) raises TypeError when number is None
ShamirShareLoop(c, p, number, inputters, k) ==
    IF k > Len(inputters) THEN [p |-> p, raised |-> FALSE]
    ELSE IF inputters[k] = p.id
         THEN IF ~number.set THEN [p |-> p, raised |-> TRUE]
              ELSE LET shares == ShamirShare(ToField(number.v, c.modulus),
                                             UsageCoefs(c.t), c.n, c.modulus)
                       p1 == SendShares(p, Peers(c, p.id), UsagePc,
                                        [j \in Peers(c, p.id) |-> shares[j][2]])
                   IN  ShamirShareLoop(c, p1, number, inputters, k + 1)
         ELSE LET exp == ExpectData(p.inc[inputters[k]], <<UsagePc, "share">>,
                                    [list |-> "shamir", index |-> inputters[k]])
              IN  ShamirShareLoop(c, [p EXCEPT !.inc[inputters[k]] = exp.dict],
                                  number, inputters, k + 1)

\* Runtime.shamir_share(inputters, field, number)
UsageShamirShare(c, p, number) ==
    IF ~(~number.set \/ p.id \in c.inputters) THEN [p |-> p, raised |-> TRUE]
    ELSE ShamirShareLoop(c, p, number, Sorted(c.inputters), 1)

\* Runtime.prss_share(inputters, field, element): the two assertions, then
\* the protocol
UsagePrssShare(c, p, element) ==
    IF (~element.set /\ p.id \in c.inputters)
          \/ (element.set /\ p.id \notin c.inputters)
    THEN [p |-> p, raised |-> TRUE]
    ELSE [p |-> PrssShare(c, p, element.v), raised |-> FALSE]

\* Runtime(player, threshold)
Construct ==
    /\ ~pl.made /\ pl.log = <<>>
    /\ pl' = IF ThresholdPositive(cfg.t)
             THEN [pl EXCEPT !.made = TRUE,
                             !.log = Append(@, Logged("init", pl, pl, FALSE))]
             ELSE [pl EXCEPT !.log = Append(@, Logged("init", pl, pl, TRUE))]
    /\ UNCHANGED <<cfg, secret, net>>
    /\ ShareFrame

\* The call, inside the wrapper of increment_pc, whose finally leaves the
\* program counter incremented whether or not the method raised.
UsageCall(op) ==
    /\ pl.made /\ Len(pl.log) = 1
    /\ cfg.op = op
    /\ LET r == IF op = "shamir_share" THEN UsageShamirShare(cfg, pl, secret)
                ELSE UsagePrssShare(cfg, pl, secret)
       IN  pl' = [r.p EXCEPT !.program_counter = LeavePc(@),
                             !.log = Append(@, Logged(op, pl, r.p, r.raised))]
    /\ UNCHANGED <<cfg, secret, net>>
    /\ ShareFrame

ShamirShareCall == UsageCall("shamir_share")

PrssShareCall == UsageCall("prss_share")

NextUsage ==
    \/ Construct
    \/ ShamirShareCall
    \/ PrssShareCall

\* Three players over Z7; any of them with a threshold from -1 to 2, any set
\* of inputters, and no value or one.
UsageInputs ==
    {[n |-> 3, modulus |-> 7, id |-> id, t |-> t, op |-> op, inputters |-> inp,
      value |-> v, prf |-> PrfTable(3, IF t > 0 THEN t ELSE 1, 7, 1, 2)] :
        id \in 1..3, t \in -1..2, op \in {"shamir_share", "prss_share"},
        inp \in (SUBSET (1..3)) \ {{}}, v \in {Unset, Result(5)}}

InitUsage ==
    /\ \E x \in UsageInputs :
          /\ cfg = [n |-> x.n, modulus |-> x.modulus, id |-> x.id, t |-> x.t,
                    op |-> x.op, inputters |-> x.inputters, prf |-> x.prf]
          /\ secret = x.value
          /\ pl = [id |-> x.id, made |-> FALSE, program_counter |-> <<0>>,
                   inc |-> [j \in Peers(x, x.id) |-> <<>>],
                   out |-> [j \in Peers(x, x.id) |-> <<>>],
                   tmp_shares |-> <<>>,
                   result |-> [d \in x.inputters |-> Unset],
                   log |-> <<>>]
          /\ net = <<>>
    /\ ShareOthersIdle

SpecUsage == InitUsage /\ [][NextUsage]_vars

\* The usage errors: a threshold that is not positive, and an inputter that
\* calls shamir_share without a number or prss_share without an element.
UsageError(entry) ==
    IF entry.op = "init" THEN cfg.t <= 0
    ELSE ~secret.set /\ cfg.id \in cfg.inputters

\* The call raised and left the waiters and the messages sent as they were.
Rejected(entry) ==
    /\ entry.raised
    /\ entry.inc_after = entry.inc_before
    /\ entry.out_after = entry.out_before

\* C30: every usage error raises in the call, before a message is sent and
\* before a waiter is registered.
C30_UsageErrorsRejected ==
    \A k \in DOMAIN pl.log : UsageError(pl.log[k]) => Rejected(pl.log[k])

\* C30 for the constructor, for prss_share, and for shamir_share when no
\* inputter comes before the caller in the list.
C30_UsageErrorsRejectedFirst ==
    \A k \in DOMAIN pl.log :
        (/\ UsageError(pl.log[k])
         /\ pl.log[k].op = "shamir_share" => \A j \in cfg.inputters : j >= cfg.id)
            => Rejected(pl.log[k])

\* Player 2, an inputter after player 1, has called shamir_share without a
\* number: the call raised after it registered the waiter for player 1.
C30_Witness ==
    /\ cfg.id = 2 /\ cfg.inputters = {1, 2} /\ cfg.op = "shamir_share"
    /\ ~secret.set
    /\ Len(pl.log) = 2 /\ pl.log[2].raised
    /\ pl.inc[1] # <<>>

\* The constructor has rejected a threshold, prss_share an inputter without
\* an element, or shamir_share an inputter without a number that is the
\* first of the list, and nothing was sent or registered.
C30_WitnessFirst ==
    \/ /\ cfg.t = 0 /\ Len(pl.log) = 1 /\ pl.log[1].raised /\ ~pl.made
    \/ /\ Len(pl.log) = 2 /\ UsageError(pl.log[2]) /\ Rejected(pl.log[2])
       /\ \A j \in DOMAIN pl.inc : pl.inc[j] = <<>> /\ pl.out[j] = <<>>

----------------------------------------------------------------------------
(***************************************************************************)
(* The steps of the Bracha broadcast, on the players of SpecBracha.        *)
(***************************************************************************)

\* Player i has sent echo(m): send_received(m) ran, which sends echo(m) to
\* every peer and counts the player's own echo.
Echoed(i, m) == i \in Range(bp[i].bracha_echo[m])

\* The first send of the designated sender has been handed to player i: the
\* Deferred _broadcast registered for it was called back.
SendHandled(i) ==
    /\ bp[i].called /\ ~bp[i].raised
    /\ IF bc.sender = i THEN TRUE
       ELSE <<BrachaPc, "send">> \notin DOMAIN bp[i].inc[bc.sender]
               \/ ~IsDeferred(bp[i].inc[bc.sender][<<BrachaPc, "send">>][1])

\* every player but the sender echoes once, on the send from the sender
OthersEchoOnce ==
    \A i \in DOMAIN bp :
        /\ Cardinality({m \in Messages : Echoed(i, m)}) <= 1
        /\ i # bc.sender => ((\E m \in Messages : Echoed(i, m)) <=> SendHandled(i))

\* C31: the sender's call of _broadcast does not fail, it sends and echoes
\* its message and counts its own echo; every other player echoes exactly
\* once, when the first send from the sender is handed to it, and never
\* otherwise.
C31_EchoOnceAfterSend ==
    /\ OthersEchoOnce
    /\ \A i \in DOMAIN bp :
          (i = bc.sender /\ bp[i].called) => ~bp[i].raised /\ Echoed(i, bc.message)

\* C31 for the players other than the sender.
C31_OthersEchoOnce == OthersEchoOnce

\* The honest sender has called _broadcast, which raised before it sent or
\* echoed anything, and another player waits for its send.
C31_Witness ==
    /\ bc.sender \in DOMAIN bp
    /\ bp[bc.sender].called /\ bp[bc.sender].raised
    /\ \A m \in Messages : ~Echoed(bc.sender, m)
    /\ \E i \in DOMAIN bp : i # bc.sender /\ bp[i].called /\ ~SendHandled(i)

\* A player has echoed the value a corrupt sender sent to it, while another
\* player echoed the other value.
C31_WitnessOthers ==
    /\ bc.sender \in bc.corrupt
    /\ \E i, j \in DOMAIN bp : Echoed(i, "X") /\ Echoed(j, "Y")

\* The ready(m) messages of player i that are on the way to player j, are
\* buffered at j, or were counted by j.
ReadyCopies(i, j, m) ==
    LET key == <<BrachaPc, "ready">>
        flying == {k \in DOMAIN bnet[<<i, j>>] :
                      bnet[<<i, j>>][k].type = "ready" /\ bnet[<<i, j>>][k].data = m}
        deq == Setdefault(bp[j].inc[i], key)
        buffered == {k \in DOMAIN deq : ~IsDeferred(deq[k]) /\ deq[k].v = m}
    IN  Cardinality(flying) + Cardinality(buffered)
           + (IF i \in Range(bp[j].bracha_ready[m]) THEN 1 ELSE 0)

\* The distinct players in a list of ids.
Distinct(ids) == Cardinality(Range(ids))

\* C32: a player sends ready(m) at most once, having counted echo(m) from at
\* least ceil((n+t+1)/2) distinct players or ready(m) from at least t+1
\* distinct other players, and it has counted its own ready(m) when it has
\* sent it.
C32_ReadyOnceAfterThreshold ==
    \A i \in DOMAIN bp : \A m \in Messages :
        /\ \A j \in DOMAIN bp \ {i} : ReadyCopies(i, j, m) <= 1
        /\ (\E j \in DOMAIN bp \ {i} : ReadyCopies(i, j, m) > 0)
              => bp[i].bracha_sent_ready[m]
        /\ bp[i].bracha_sent_ready[m] =>
              /\ i \in Range(bp[i].bracha_ready[m])
              /\ \/ Distinct(bp[i].bracha_echo[m]) >= CeilHalf(bc.n + bc.t + 1)
                 \/ Distinct(bp[i].bracha_ready[m]) - 1 >= bc.t + 1

\* One player has sent ready(X) on three echoes, another on the ready
\* messages of two other players with fewer than three echoes.
C32_Witness ==
    /\ \E i \in DOMAIN bp :
          /\ bp[i].bracha_sent_ready["X"]
          /\ Len(bp[i].bracha_echo["X"]) >= CeilHalf(bc.n + bc.t + 1)
    /\ \E i \in DOMAIN bp :
          /\ bp[i].bracha_sent_ready["X"]
          /\ Len(bp[i].bracha_echo["X"]) < CeilHalf(bc.n + bc.t + 1)
          /\ Len(bp[i].bracha_ready["X"]) >= bc.t + 2

\* how often the list ids holds the peer k
Count(ids, k) == Cardinality({x \in DOMAIN ids : ids[x] = k})

RECURSIVE CountAll(_, _, _)
\* how often the lists of all the messages in ms hold the peer k
CountAll(lists, ms, k) ==
    IF ms = {} THEN 0
    ELSE LET m == CHOOSE m \in ms : TRUE
         IN  Count(lists[m], k) + CountAll(lists, ms \ {m}, k)

\* C33: a player delivers m only with ready(m) counted from at least 2t+1
\* distinct players; the echo and the ready of each peer are counted at most
\* once in a broadcast; and the result is called back at most once.
C33_DeliverOnceAfterReady ==
    \A i \in DOMAIN bp :
        /\ \A m \in Delivered(i) : Distinct(bp[i].bracha_ready[m]) >= 2 * bc.t + 1
        /\ \A m \in Messages : bp[i].bracha_delivered[m] <=> m \in Delivered(i)
        /\ \A k \in Players(bc) \ {i} :
              /\ CountAll(bp[i].bracha_echo, Messages, k) <= 1
              /\ CountAll(bp[i].bracha_ready, Messages, k) <= 1
        /\ Len(bp[i].result) <= 1

\* A player has delivered X and afterwards counted a fourth ready(X), and a
\* player has counted echoes of both values, each from other players.
C33_Witness ==
    /\ \E i \in DOMAIN bp :
          bp[i].result = <<"X">> /\ Len(bp[i].bracha_ready["X"]) = 2 * bc.t + 2
    /\ \E i \in DOMAIN bp :
          bp[i].bracha_echo["X"] # <<>> /\ bp[i].bracha_echo["Y"] # <<>>

----------------------------------------------------------------------------
(* Operations issued after a callback was scheduled.  ProgCaller is a        *)
(* counted method that schedules a callback calling a counted method that    *)
(* sends, and then calls a counted method that sends itself.  ProgCallbacks  *)
(* schedules two such callbacks on two Deferreds from the same method, the   *)
(* case of the TODO in schedule_callback.                                    *)

ProgCaller ==
    << Op(1, << Sched(11, 1, << Op(2, << Io(3) >>) >>),
                Op(4, << Io(5) >>) >>),
       Op(6, << Io(7) >>) >>

ProgCallbacks ==
    << Op(1, << Sched(11, 1, << Op(2, << Io(3) >>) >>),
                Sched(12, 2, << Op(4, << Io(5) >>) >>) >>),
       Op(6, << Io(7) >>) >>

SchedPrograms == Programs \cup {ProgCaller, ProgCallbacks}

InitSched ==
    /\ program \in SchedPrograms
    /\ next_stmt = [r \in Runtimes |-> 1]
    /\ rt \in {[r \in Runtimes |-> InitRuntime(c[r])] :
                  c \in [Runtimes -> SUBSET Deferreds]}
    /\ PCOthersIdle

SpecSched == InitSched /\ [][NextPC]_vars

RECURSIVE IoOwners(_, _)

\* The sends and expects of a statement list, each with the counted method
\* whose code it is; a callback's code is code of the method that defines it.
IoOwners(stmts, owner) ==
    IF stmts = <<>> THEN {}
    ELSE LET stmt == Head(stmts)
             here == CASE stmt.k = "op" -> IoOwners(stmt.body, stmt.id)
                       [] stmt.k = "io" -> {<<stmt.id, owner>>}
                       [] stmt.k = "sched" -> IoOwners(stmt.body, owner)
                       [] OTHER -> {}
         IN  here \cup IoOwners(Tail(stmts), owner)

Owner(io) == (CHOOSE p \in IoOwners(program, 0) : p[1] = io)[2]

\* C34: no two operations of one runtime that send or expect data do so
\* under the same program counter, the operations started in a scheduled
\* callback and the ones the caller issues after scheduling it included.
C34_OperationsDistinctPc ==
    \A r \in Runtimes : \A p, q \in rt[r].io :
        p[2] = q[2] => Owner(p[1]) = Owner(q[1])

\* The callback's operation and the caller's later operation have both sent.
C34_Witness ==
    \E r \in Runtimes :
        /\ program = ProgCaller
        /\ {3, 5} \subseteq {p[1] : p \in rt[r].io}

----------------------------------------------------------------------------
(* The result shares of the passive multiplication, on the runs of SpecMul *)

\* The players that hold their share of the product.
MulHolders == {i \in DOMAIN pl : pl[i].mul_result.set}

\* The pairs (field(i), share of i) of the players in S.
MulPoints(S) == [i \in S |-> <<ToField(i, cfg.modulus), pl[i].mul_result.v>>]

\* The result shares lie on one polynomial of degree at most t with constant
\* term a*b: any t+1 of them interpolate to a*b at 0.
OnProductPolynomial ==
    \A S \in SUBSET MulHolders :
        Cardinality(S) = cfg.t + 1 =>
            Recombine(MulPoints(S), cfg.modulus)
               = FMul(secret.a, secret.b, cfg.modulus)

\* C35: after the passive mul the result shares of all players lie on one
\* polynomial of degree at most t with constant term a*b, whichever 2t+1
\* reshared products each player recombined.
C35_MulSharesOnOnePolynomial == OnProductPolynomial

\* C35 for exactly 2t+1 players, where every player recombines all of them.
C35_MulSharesOnOnePolynomialMinimal ==
    cfg.n = 2 * cfg.t + 1 => OnProductPolynomial

\* Two of four players hold result shares that they recombined from the
\* reshared products of different sets of 2t+1 players.
C35_Witness ==
    /\ cfg.n > 2 * cfg.t + 1
    /\ \E i, j \in MulHolders :
          /\ i # j
          /\ FilterGoodShares(pl[i].mul_list.results, 2 * cfg.t)
                # FilterGoodShares(pl[j].mul_list.results, 2 * cfg.t)

\* All three of three players hold their result share.
C35_WitnessMinimal ==
    cfg.n = 2 * cfg.t + 1 /\ MulHolders = DOMAIN pl

----------------------------------------------------------------------------
(* The list a ShareList has delivered, on the runs of SpecList *)

\* The ShareList of the scenario has been called with a threshold below the
\* number of its Shares.
ListCalledEarly ==
    sh_out # 0 /\ sh_heap[sh_out].called /\ ListThreshold < sh_scen.n

\* C37: once a ShareList with a threshold below the number of its Shares
\* has been called, the calls of its remaining Shares neither call it again
\* nor change the list it delivered.
C37_DeliveredListUnchanged ==
    [][ListCalledEarly =>
           /\ sh_heap'[sh_out].called
           /\ sh_heap'[sh_out].result = sh_heap[sh_out].result]_vars

\* The calls of the remaining Shares leave the ShareList called and leave
\* the entries its list had; they fill the places that held None.
C37_DeliveredEntriesKept ==
    [][ListCalledEarly =>
           /\ sh_heap'[sh_out].called
           /\ sh_heap'[sh_out].result.k = "results"
           /\ \A k \in 1..sh_scen.n :
                 sh_heap[sh_out].result.l[k].set =>
                     sh_heap'[sh_out].result.l[k] = sh_heap[sh_out].result.l[k]]_vars

\* A ShareList over three Shares with threshold 2 has been called and holds
\* the results of all three Shares, one more than it waited for.
C37_Witness ==
    /\ ListCalledEarly /\ sh_scen.n = 3 /\ sh_scen.threshold = 2
    /\ Len(sh_log) = 3 /\ ~sh_log[3].raised
    /\ \A i \in 1..3 : sh_log[i].id = i

----------------------------------------------------------------------------
(***************************************************************************)
(* Runtime._recombine over n Shares of (x, y) pairs, each of which is      *)
(* called with its pair or with a Failure, before or after _recombine.     *)
(***************************************************************************)

\* The pair (field(x), y) as the value of a Share
PairVal(x, y) == [k |-> "val", v |-> y, l |-> <<x>>]

\* Runtime._recombine(shares, threshold): the new ShareList is the Share
\* after the last one of heap
RecombineShares(heap, ids, threshold, m) ==
    LET out == Len(heap) + 1
        h1 == NewShareListWith(heap, ids, threshold + 1)
        h2 == AddCallbackOnly(h1, out, Fn("filter_good_shares", 0, threshold,
                                          FALSE, m))
    IN  AddCallbackOnly(h2, out, Fn("recombine", 0, 0, FALSE, m))

RecombineScenarios ==
    {[op |-> "recombine", modulus |-> 5, n |-> n, threshold |-> 1,
      secret |-> a, coef |-> c] : n \in {3, 4}, a \in {2, 4}, c \in {0, 3}}

InitRecombine ==
    /\ sh_scen \in RecombineScenarios
    /\ sh_heap = [k \in 1..sh_scen.n |-> NewShare]
    /\ sh_out = 0
    /\ sh_log = <<>>
    /\ ObjOthersIdle

\* The share of player d arrives: the pair (d, f(d)).
PairArrives(d) ==
    CallShare(d, PairVal(d, PolyEval(<<sh_scen.secret, sh_scen.coef>>, d,
                                     sh_scen.modulus)))

\* The runtime calls _recombine on the n Shares.
RecombineCall ==
    /\ sh_out = 0
    /\ sh_heap' = RecombineShares(sh_heap, [k \in 1..sh_scen.n |-> k],
                                  sh_scen.threshold, sh_scen.modulus)
    /\ sh_out' = Len(sh_heap) + 1
    /\ UNCHANGED <<sh_scen, sh_log>>
    /\ ObjFrame

NextRecombine ==
    \/ \E d \in 1..sh_scen.n : PairArrives(d)
    \/ \E d \in 1..sh_scen.n : FailShare(d)
    \/ RecombineCall

SpecRecombine == InitRecombine /\ [][NextRecombine]_vars

\* The Share _recombine returned holds a value.
Recombined(out, heap) ==
    out # 0 /\ heap[out].called /\ heap[out].result.k = "val"

\* The pairs that have arrived successfully, as the ShareList holds them.
GoodPairs(out, heap) == GoodShares(heap[out].sl.results)

\* C36: when _recombine produces its value, threshold+1 of its Shares have
\* been called with a pair: a Share called with a Failure does not count
\* towards the threshold+1 arrivals, and the value is the interpolation of
\* threshold+1 pairs.
C36_RecombinesGoodShares ==
    [][(Recombined(sh_out', sh_heap') /\ ~Recombined(sh_out, sh_heap)) =>
           Len(GoodPairs(sh_out', sh_heap')) >= sh_scen.threshold + 1]_vars

\* What _recombine does produce: the interpolation of the first pairs, at
\* most threshold+1 of them, that had arrived when threshold+1 of its Shares
\* had been called either way.
C36_RecombinesArrivedShares ==
    [][(Recombined(sh_out', sh_heap') /\ ~Recombined(sh_out, sh_heap)) =>
           /\ Cardinality({k \in 1..sh_scen.n : sh_heap'[k].called})
                 >= sh_scen.threshold + 1
           /\ sh_heap'[sh_out'].result =
                 Val(Recombine([i \in 1..Min(sh_scen.threshold + 1,
                                             Len(GoodPairs(sh_out', sh_heap'))) |->
                                  <<GoodPairs(sh_out', sh_heap')[i].l[1],
                                    GoodPairs(sh_out', sh_heap')[i].v>>],
                               sh_scen.modulus))]_vars

\* _recombine has produced a value that is not the secret, after one Share
\* failed and one pair arrived.
C36_Witness ==
    /\ Recombined(sh_out, sh_heap)
    /\ sh_heap[sh_out].result # Val(sh_scen.secret)
    /\ Len(sh_log) = 2
    /\ \E i, j \in 1..2 : IsFailure(sh_log[i].arg) /\ sh_log[j].arg.k = "val"

\* _recombine has produced the secret from two pairs, no Share having failed.
C36_WitnessGood ==
    /\ Recombined(sh_out, sh_heap)
    /\ sh_heap[sh_out].result = Val(sh_scen.secret)
    /\ Len(sh_log) = 2
    /\ \A i \in 1..2 : sh_log[i].arg.k = "val" /\ ~sh_log[i].raised

----------------------------------------------------------------------------
(***************************************************************************)
(* preprocess with generators that may fail.  The runtime of SpecPool,     *)
(* with one more field:                                                    *)
(*   failed    ghost: the number of batches whose generators failed        *)
(***************************************************************************)

InitPreprocess ==
    /\ \E T \in {1, 2} :
          pool_rt = [heap |-> << <<0>> >>, pc |-> 1, saved |-> 0, T |-> T,
                     pool |-> <<>>, needed_data |-> <<>>, callbacks |-> <<>>,
                     pending |-> <<>>, made |-> 0, preprocessed |-> 0,
                     failed |-> 0]
    /\ pool_log = <<>>
    /\ PoolOthersIdle

\* A Deferred of generate_triples fails for the oldest batch (a sharing was
\* not verified): gatherResults(results) fails, update is skipped, and the
\* DeferredList of preprocess fires with the failure in its list.
PoolBatchFails ==
    /\ pool_rt.pending # <<>>
    /\ pool_rt' = [pool_rt EXCEPT !.pending = SubSeq(@, 2, Len(@)),
                                  !.failed = @ + 1]
    /\ UNCHANGED pool_log
    /\ PoolFrame

NextPreprocess ==
    \/ NextPool
    \/ PoolBatchFails

SpecPreprocess == InitPreprocess /\ [][NextPreprocess]_vars

\* The Deferred returned by preprocess fires in this step, for the oldest
\* batch.
PreprocessFires == Len(pool_rt'.pending) < Len(pool_rt.pending)

\* The pool holds an entry for every program counter of the batch.
PoolCovers(pool, batch) ==
    \A k \in DOMAIN batch.program_counters :
        batch.program_counters[k] \in DOMAIN pool

\* No item is in the pool under two program counters.
PoolItemsOnce(pool) ==
    \A p, q \in DOMAIN pool : p # q => pool[p] # pool[q]

\* generate_triples was called until it had reported at least as many items
\* as program counters were requested, and no longer.
GeneratedEnough(batch, T) ==
    /\ Len(batch.results) >= Len(batch.program_counters)
    /\ Len(batch.results) - T < Len(batch.program_counters)

----------------------------------------------------------------------------
(***************************************************************************)
(* The first string on TLS connections to the runtime of player 1.  Each   *)
(* of the connections in Conns comes from an endpoint that presents a      *)
(* certificate (its serial number, 0 for none) and claims a player id.     *)
(* Further fields of the player, whose conn and peer_id are per connection:*)
(*   lost    the connections on which transport.loseConnection was called  *)
(***************************************************************************)

Conns == {1, 2}
NoCert == 0

\* ShareExchanger.stringReceived while self.peer_id is None, on a transport
\* with getPeerCertificate
CertIdentityReceived(p, c, string, cert) ==
    LET peer_id == ParseInt(string)
        p1 == [p EXCEPT !.peer_id[c] = peer_id]
        p2 == IF cert # NoCert /\ cert # peer_id
              THEN [p1 EXCEPT !.lost = @ \cup {c}]
              ELSE p1
    IN  IdentifyPeer(p2, peer_id)

InitCert ==
    /\ \E cert \in [Conns -> {NoCert, 2, 3}], claim \in [Conns -> {2, 3}] :
          cfg = [n |-> 3, cert |-> cert, claim |-> claim]
    /\ pl = [i \in {1} |->
               [id |-> i, started |-> FALSE, needed_protocols |-> 0,
                protocols |-> {},
                conn |-> [c \in Conns |-> "none"],
                peer_id |-> [c \in Conns |-> 0],
                ready |-> 0, ready_with |-> {}, lost |-> {}]]
    /\ net = [c \in Conns |-> <<>>]
    /\ secret = <<>>
    /\ ShareOthersIdle

\* The connection c to player 1 is made: the endpoint's connectionMade
\* sends the id it claims.
CertConnectionMade(c) ==
    /\ pl[1].started
    /\ pl[1].conn[c] = "none"
    /\ pl' = [pl EXCEPT ![1].conn[c] = "made"]
    /\ net' = [net EXCEPT ![c] = Append(@, Str(cfg.claim[c]))]
    /\ UNCHANGED <<cfg, secret>>
    /\ ShareFrame

\* The first string on connection c reaches player 1.
CertIdentityDeliver(c) ==
    /\ pl[1].conn[c] = "made"
    /\ pl[1].peer_id[c] = 0
    /\ net[c] # <<>>
    /\ pl' = [pl EXCEPT ![1] = CertIdentityReceived(@, c, Head(net[c]),
                                                    cfg.cert[c])]
    /\ net' = [net EXCEPT ![c] = Tail(@)]
    /\ UNCHANGED <<cfg, secret>>
    /\ ShareFrame

NextCert ==
    \/ CreateRuntime(1)
    \/ \E c \in Conns : CertConnectionMade(c)
    \/ \E c \in Conns : CertIdentityDeliver(c)

SpecCert == InitCert /\ [][NextCert]_vars

\* The first string of connection c has been handled.
Identified(c) == pl[1].peer_id[c] # 0

\* The endpoint of c presents a certificate of another player than the one
\* it claims to be.
Mismatch(c) == cfg.cert[c] # NoCert /\ cfg.cert[c] # cfg.claim[c]

\* The connections whose first string was accepted.
Accepted == {c \in Conns : Identified(c) /\ ~Mismatch(c)}

\* C39: a connection whose certificate does not match the claimed id is
\* aborted, and its peer is neither added to the runtime's protocols nor
\* counted towards the protocols the factory waits for.
C39_MismatchNotBound ==
    pl[1].started =>
        /\ \A c \in Conns : (Identified(c) /\ Mismatch(c)) => c \in pl[1].lost
        /\ pl[1].protocols = {pl[1].peer_id[c] : c \in Accepted}
        /\ pl[1].needed_protocols
              = NeededProtocols(Players(cfg)) - Cardinality(Accepted)

\* What holds: exactly the connections with a mismatching certificate are
\* aborted, and every connection whose first string was handled is bound
\* and counted, aborted or not.
C39_MismatchAbortedButBound ==
    pl[1].started =>
        /\ pl[1].lost = {c \in Conns : Identified(c) /\ Mismatch(c)}
        /\ pl[1].protocols = {pl[1].peer_id[c] : c \in {d \in Conns : Identified(d)}}
        /\ pl[1].needed_protocols
              = NeededProtocols(Players(cfg))
                   - Cardinality({c \in Conns : Identified(c)})

\* The runtime is ready, with a protocol for player 3 that belongs to a
\* connection presenting the certificate of player 2.
C39_Witness ==
    /\ pl[1].ready = 1
    /\ \E c \in Conns :
          /\ Identified(c) /\ cfg.cert[c] = 2 /\ cfg.claim[c] = 3
          /\ c \in pl[1].lost
          /\ 3 \in pl[1].protocols

----------------------------------------------------------------------------
(***************************************************************************)
(* The inverse in GF(2^8): ~a and a * ~a for an element a, with            *)
(*   sh_scen   the element a                                               *)
(*   sh_out    the outcome of ~a                                           *)
(*   sh_log    the products a * ~a computed                                *)
(***************************************************************************)

\* GF256Element.__invert__: GF256Element(_inv_table[self.value]); a key
\* that is not in the table raises KeyError
GF256Invert(a) ==
    IF a \in DOMAIN InvTable THEN Returned(InvTable[a] % 256) ELSE Raised

InitGF256 ==
    /\ sh_scen \in [op : {"invert"}, a : 0..255]
    /\ sh_heap = <<>>
    /\ sh_out = NoOutcome
    /\ sh_log = <<>>
    /\ ObjOthersIdle

\* The application evaluates ~a.
InvertCall ==
    /\ ~sh_out.set
    /\ sh_out' = GF256Invert(sh_scen.a)
    /\ UNCHANGED <<sh_scen, sh_heap, sh_log>>
    /\ ObjFrame

\* The application multiplies a by the inverse it got.
TimesInverseCall ==
    /\ sh_out.set /\ sh_out.ok
    /\ sh_log = <<>>
    /\ sh_log' = <<GF256Mul(sh_scen.a, sh_out.v)>>
    /\ UNCHANGED <<sh_scen, sh_heap, sh_out>>
    /\ ObjFrame

NextGF256 ==
    \/ InvertCall
    \/ TimesInverseCall

SpecGF256 == InitGF256 /\ [][NextGF256]_vars

\* ~a is defined and a * ~a is 1, for the element of the run.
InverseHolds ==
    /\ sh_out.set => sh_out.ok
    /\ \A i \in DOMAIN sh_log : sh_log[i] = 1

\* C40: for every a in 1..255 the inverse ~a is defined, and a * ~a is 1.
C40_InverseOfNonzero ==
    sh_scen.a \in 1..255 => InverseHolds

\* The same for the elements 1..254, the keys of the table of inverses.
C40_InverseBelow255 ==
    sh_scen.a \in 1..254 => InverseHolds

\* ~a has been evaluated for a = 255.
C40_Witness ==
    sh_scen.a = 255 /\ sh_out.set

\* a * ~a has been computed for a = 254.
C40_WitnessBelow255 ==
    sh_scen.a = 254 /\ sh_log # <<>>

=============================================================================
